---------------------------- MODULE Spec2Model ----------------------------
(***************************************************************************)
(* Outbound-call resilience layer of the WhatsApp relay service:           *)
(*   - fetchWithRetry      (services/utils/retryWithTimeout.js)            *)
(*   - createCircuitBreaker (services/utils/circuitBreaker.js)             *)
(*   - idempotency service (services/idempotency-service)                  *)
(*   - splitMessage        (services/utils/messageSplitter.js)             *)
(*   - sendTextMessageWithSplitting (services/whatsapp-api-service)        *)
(* Each component has its own specification (SpecRetry, SpecTimeout,       *)
(* SpecBreakerSeq, SpecBreaker, SpecIdem, SpecSplit, SpecSend); a          *)
(* component's specification leaves the other components' variables at     *)
(* their initial values.                                                   *)
(***************************************************************************)
EXTENDS Integers, Sequences, FiniteSets, TLC

VARIABLES
    \* ---- fetchWithRetry: one invocation at a time
    frPc,          \* "idle" | "fetching" | "sleeping" | "returned" | "thrown"
    frCfg,         \* [maxRetries, retryDelayMs, shouldRetry] of the running invocation
    attempt,       \* loop variable of the for loop
    lastError,     \* let lastError
    lastResponse,  \* let lastResponse
    frResult,      \* what the invocation returned or threw
    nFetch,        \* history: number of fetch() calls of this invocation
    nSettled,      \* history: number of those calls that have settled
    sleeps,        \* history: the delays slept, in order
    lastOutcome,   \* history: how the latest fetch() settled
    respSeen,      \* history: latest non-ok response any attempt produced
    nonRetryableSeen \* history: some failed attempt was not retryable per shouldRetry

VARIABLES
    \* ---- the clock read by Date.now()
    now,
    \* ---- one circuit breaker (createCircuitBreaker's closure)
    cfg,                  \* [failureThreshold, successThreshold, timeoutMs, resetTimeoutMs]
    state,                \* "CLOSED" | "OPEN" | "HALF_OPEN"
    failureCount,
    successCount,
    lastFailureTime,      \* -1 stands for null
    lastStateChangeTime,
    call,                 \* per caller: [pc, now]: where its execute() is, and its const now
    cbOutcome,            \* history: how each caller's latest execute() ended
    consecFail,           \* history: protected calls that failed in a row
    consecSucc,           \* history: protected calls that succeeded in a row, counted from
                          \* the call that moved OPEN to HALF_OPEN (-1: no such run)
    trippedAt             \* history: when the failure that took the breaker from CLOSED to
                          \* OPEN was observed (-1: the breaker is not OPEN by such a failure)

cbVars == <<cfg, state, failureCount, successCount, lastFailureTime,
            lastStateChangeTime, call, cbOutcome, consecFail, consecSucc, trippedAt>>

VARIABLES
    \* ---- idempotency service and the Redis client it consults
    redisStatus,    \* "none": REDIS_URL not set (client null) | "ready" | "down"
    redisKeys,      \* the shared store: message id -> expiry time of its key (0: no key)
    inMemoryStore,  \* the Map: message id -> timestamp (-1: no entry)
    proc,           \* per worker: its processWithIdempotency call
    runs,           \* history: processor invocations per message id (2: two or more)
    markTime,       \* history: when the id was last marked as processed (-1: never)
    firstDone       \* history: ids for which a call that ran the processor has ended

idVars == <<redisStatus, redisKeys, inMemoryStore, proc, runs, markTime, firstDone>>

frVars == <<frPc, frCfg, attempt, lastError, lastResponse, frResult,
            nFetch, nSettled, sleeps, lastOutcome, respSeen, nonRetryableSeen>>

VARIABLES
    \* ---- the per-attempt timeout of fetchWithRetry (createTimeoutController)
    frTimeoutMs,   \* config.timeoutMs of the running invocation
    timers,        \* pending setTimeout callbacks: [attempt, due], each aborting
                   \* the controller created for that attempt
    aborted,       \* attempts whose controller.signal is aborted
    fetchStart,    \* history: when the pending (or latest) fetch() was issued
    settledAfter   \* history: ms after which the latest fetch() settled (-1: none)

tmVars == <<frTimeoutMs, timers, aborted, fetchStart, settledAfter>>

VARIABLES
    \* ---- splitMessage: one invocation at a time
    spPc,          \* "idle" | "loop" | "returned"
    message,       \* the argument message
    maxLength,     \* the argument maxLength
    remaining,     \* let remaining
    chunks,        \* const chunks; once returned, the array returned
    trimmed        \* history: characters the trim() calls have removed

spVars == <<spPc, message, maxLength, remaining, chunks, trimmed>>

VARIABLES
    \* ---- sendTextMessageWithSplitting: one invocation at a time
    sdPc,            \* "idle" | "sending" | "delay" | "returned" | "thrown"
    sdMessage,       \* the argument message
    sdSplitting,     \* ENABLE_MESSAGE_SPLITTING
    sdChunks,        \* const chunks (the message itself when it is sent unsplit)
    sdI,             \* loop variable i
    sentChunks,      \* const sentChunks
    failedChunks,    \* const failedChunks
    sdApiBodies,     \* history: the bodies posted to the WhatsApp API, in order
    sdRejected       \* history: [chunk, why] of the sends validateMessageLength refused

sdVars == <<sdPc, sdMessage, sdSplitting, sdChunks, sdI, sentChunks, failedChunks,
            sdApiBodies, sdRejected>>

VARIABLES
    \* ---- queryHaiIndexer: one query at a time, through the breaker as caller 1
    qPc,           \* "idle" | "executing" | "resolved" | "rejected"
    qAnswer,       \* the answer the query resolved with ("none": none yet)
    qRequests,     \* history: requests made to the downstream API for this query
    qShort         \* history: the breaker short-circuited this query

qVars == <<qPc, qAnswer, qRequests, qShort>>

VARIABLES
    \* ---- the rate limiting middleware made by createRateLimiter
    rlCfg,         \* [windowMs, maxRequests]; times are in seconds
    rlMemory,      \* inMemoryStore: key -> [count, resetTime] (count 0: no record)
    rlRedis,       \* the shared store: key -> [count, expireAt] (count 0: no key,
                   \* expireAt -1: a key without expiry)
    rlReq,         \* per request in flight: its position in the middleware
    rlWindow,      \* history: key -> the window its latest request fell in: [start,
                   \* n requests received, passed on, limited]
    rlArrivals     \* history: requests received so far

rlVars == <<rlCfg, rlMemory, rlRedis, rlReq, rlWindow, rlArrivals>>

vars == <<now, cbVars, frVars, tmVars, idVars, spVars, sdVars, qVars, rlVars>>

\* What a component's steps leave alone: the other components' variables.
notFr == <<now, cbVars, idVars, tmVars, spVars, sdVars, qVars, rlVars>>

notCb == <<frVars, tmVars, idVars, spVars, sdVars, qVars, rlVars>>

notId == <<cbVars, frVars, tmVars, spVars, sdVars, qVars, rlVars>>

notTm == <<cbVars, idVars, spVars, sdVars, qVars, rlVars>>

notSp == <<now, cbVars, frVars, tmVars, idVars, sdVars, qVars, rlVars>>

notSd == <<now, cbVars, frVars, tmVars, idVars, spVars, qVars, rlVars>>

notHq == <<frVars, tmVars, idVars, spVars, sdVars, rlVars>>

\* the idempotency service's own variables: the Redis client's status is
\* read by the rate limiter too
idOwn == <<redisKeys, inMemoryStore, proc, runs, markTime, firstDone>>

notRl == <<cbVars, frVars, tmVars, idOwn, spVars, sdVars, qVars>>

-----------------------------------------------------------------------------
(* Bounds of the model *)
MaxRetriesBound == 3
MaxRetryDelay == 2
MaxThreshold == 2
MaxDuration == 2
MaxTime == 4
MaxTextLen == 6
MaxChunkLen == 4
MaxLineLen == 11
MaxWindow == 2
MaxLimit == 2
MaxRlTime == 2
MaxArrivals == 3

-----------------------------------------------------------------------------
(***************************************************************************)
(* fetchWithRetry                                                          *)
(***************************************************************************)

None == [kind |-> "none", status |-> 0, name |-> "none", code |-> "none"]

Response(s) == [kind |-> "response", status |-> s, name |-> "none", code |-> "none"]

FetchError(n, c) == [kind |-> "error", status |-> 0, name |-> n, code |-> c]

\* What one fetch() attempt can settle with: a response with some status, or
\* a rejection (timeout abort, connection refused, any other transport error).
Statuses == {200, 400, 429, 503}

Responses == {Response(s) : s \in Statuses}

Errors == {FetchError("AbortError", "none"),
           FetchError("Error", "ECONNREFUSED"),
           FetchError("Error", "ENOTFOUND")}

Outcomes == Responses \cup Errors

\* response.ok of the Fetch API: status in 200..299
Ok(o) == o.kind = "response" /\ o.status >= 200 /\ o.status < 300

NonOk == {o \in Outcomes : ~Ok(o)}

\* The default shouldRetry(error, response) of fetchWithRetry.
DefaultShouldRetry(o) ==
    IF o.kind = "error"
      THEN o.name = "AbortError" \/ o.code = "ECONNREFUSED" \/ o.code = "ETIMEDOUT"
      ELSE IF o.kind = "response"
        THEN o.status >= 500 /\ o.status < 600
        ELSE FALSE

DefaultRetryable == {o \in NonOk : DefaultShouldRetry(o)}

\* config.shouldRetry is any predicate on the failed outcome: the set of the
\* outcomes it answers true for.
ShouldRetryPredicates == SUBSET NonOk

RetryConfigs == [maxRetries : 0..MaxRetriesBound,
                 retryDelayMs : 1..MaxRetryDelay,
                 shouldRetry : ShouldRetryPredicates]

ShouldRetry(o) == o \in frCfg.shouldRetry

\* const delay = retryDelayMs * Math.pow(2, attempt)
BackoffDelayNoExp(a) == frCfg.retryDelayMs * (a + 1)

BackoffDelay(a) == frCfg.retryDelayMs * 2^a

\* attempt < maxRetries: another attempt may follow this one
AttemptsRemainOffByOne(a) == a <= frCfg.maxRetries

AttemptsRemain(a) == a < frCfg.maxRetries

FrInit ==
    /\ frPc = "idle"
    /\ frCfg = [maxRetries |-> 0, retryDelayMs |-> 1, shouldRetry |-> {}]
    /\ attempt = 0
    /\ lastError = None
    /\ lastResponse = None
    /\ frResult = None
    /\ nFetch = 0
    /\ nSettled = 0
    /\ sleeps = <<>>
    /\ lastOutcome = None
    /\ respSeen = None
    /\ nonRetryableSeen = FALSE
    /\ frTimeoutMs = 1
    /\ timers = {}
    /\ aborted = {}
    /\ fetchStart = 0
    /\ settledAfter = -1

\* fetchWithRetry(url, options, config) is called: the loop starts with
\* attempt 0 and issues the first fetch().
FetchWithRetryCall(config) ==
    /\ frPc = "idle"
    /\ frCfg' = config
    /\ attempt' = 0
    /\ lastError' = None
    /\ lastResponse' = None
    /\ frResult' = None
    /\ frPc' = "fetching"
    /\ nFetch' = 1
    /\ nSettled' = 0
    /\ sleeps' = <<>>
    /\ lastOutcome' = None
    /\ respSeen' = None
    /\ nonRetryableSeen' = FALSE

\* await sleep(delay); continue  (or the end of the catch block): the
\* invocation is suspended in sleep(BackoffDelay(attempt)).
StartSleep ==
    /\ frPc' = "sleeping"
    /\ sleeps' = Append(sleeps, BackoffDelay(attempt))
    /\ UNCHANGED <<frResult, attempt, nFetch>>

\* The statements after the loop: return lastResponse, else throw lastError.
AfterLoop(lr, le) ==
    /\ frPc' = IF lr # None THEN "returned" ELSE "thrown"
    /\ frResult' = IF lr # None THEN lr ELSE le
    /\ UNCHANGED <<attempt, nFetch, sleeps>>

\* fetch() resolved with response o: lines 72-86.
OnResponseRetryIgnored(o) ==
    /\ o.kind = "response"
    /\ lastError' = lastError
    /\ IF Ok(o)
         THEN /\ frPc' = "returned"
              /\ frResult' = o
              /\ UNCHANGED <<lastResponse, attempt, nFetch, sleeps>>
         ELSE /\ lastResponse' = o
              /\ IF AttemptsRemain(attempt)
                   THEN StartSleep
                   ELSE AfterLoop(o, lastError)

OnResponse(o) ==
    /\ o.kind = "response"
    /\ lastError' = lastError
    /\ IF Ok(o) \/ ~ShouldRetry(o)
         THEN /\ frPc' = "returned"
              /\ frResult' = o
              /\ UNCHANGED <<lastResponse, attempt, nFetch, sleeps>>
         ELSE /\ lastResponse' = o
              /\ IF AttemptsRemain(attempt)
                   THEN StartSleep
                   ELSE \* falls out of the try blocks; attempt++ ends the loop
                        AfterLoop(o, lastError)

\* fetch() rejected with error o: the inner catch (lines 87-99) and, for
\* what it rethrows, the outer catch (lines 100-111).
OnFetchError(o) ==
    /\ o.kind = "error"
    /\ lastResponse' = lastResponse
    /\ lastError' = o
    /\ IF ShouldRetry(o) /\ AttemptsRemain(attempt)
         THEN StartSleep
         ELSE \* throw fetchError, caught by the outer catch
              IF attempt >= frCfg.maxRetries
                THEN /\ frPc' = "thrown"
                     /\ frResult' = o
                     /\ UNCHANGED <<attempt, nFetch, sleeps>>
                ELSE StartSleep

\* The pending fetch() of the current attempt settles.
FetchSettles(o) ==
    /\ frPc = "fetching"
    /\ \/ OnResponse(o)
       \/ OnFetchError(o)
    /\ lastOutcome' = o
    /\ nSettled' = nSettled + 1
    /\ respSeen' = IF o.kind = "response" /\ ~Ok(o) THEN o ELSE respSeen
    /\ nonRetryableSeen' = (nonRetryableSeen \/ (~Ok(o) /\ ~ShouldRetry(o)))
    /\ UNCHANGED frCfg

\* The backoff timer fires: attempt++, the loop test, the next fetch().
SleepDone ==
    /\ frPc = "sleeping"
    /\ attempt' = attempt + 1
    /\ IF attempt + 1 <= frCfg.maxRetries
         THEN /\ frPc' = "fetching"
              /\ nFetch' = nFetch + 1
              /\ UNCHANGED <<frResult, sleeps>>
         ELSE /\ frPc' = IF lastResponse # None THEN "returned" ELSE "thrown"
              /\ frResult' = IF lastResponse # None THEN lastResponse ELSE lastError
              /\ UNCHANGED <<nFetch, sleeps>>
    /\ UNCHANGED <<frCfg, lastError, lastResponse, lastOutcome, nSettled,
                   respSeen, nonRetryableSeen>>

\* The caller has taken the returned response (or caught the error); the
\* next invocation starts from fresh locals.
FetchWithRetryDone ==
    /\ frPc \in {"returned", "thrown"}
    /\ frPc' = "idle"
    /\ frCfg' = [maxRetries |-> 0, retryDelayMs |-> 1, shouldRetry |-> {}]
    /\ attempt' = 0
    /\ lastError' = None
    /\ lastResponse' = None
    /\ frResult' = None
    /\ nFetch' = 0
    /\ nSettled' = 0
    /\ sleeps' = <<>>
    /\ lastOutcome' = None
    /\ respSeen' = None
    /\ nonRetryableSeen' = FALSE

FrNext ==
    \/ \E config \in RetryConfigs : FetchWithRetryCall(config) /\ UNCHANGED notFr
    \/ FetchWithRetryDone /\ UNCHANGED notFr
    \/ \E o \in Outcomes : FetchSettles(o) /\ UNCHANGED notFr
    \/ SleepDone /\ UNCHANGED notFr

-----------------------------------------------------------------------------
(***************************************************************************)
(* Circuit breaker                                                         *)
(***************************************************************************)

\* the execute() calls that may be in flight together
Callers == {1, 2}

\* cfg = { ...DEFAULT_CONFIG, ...config }: thresholds and durations are
\* positive numbers.
BreakerConfigs == [failureThreshold : 1..MaxThreshold,
                   successThreshold : 1..MaxThreshold,
                   timeoutMs : 1..MaxDuration,
                   resetTimeoutMs : 1..MaxDuration]

IdleCall == [pc |-> "idle", now |-> 0]

\* The closure's variables right after createCircuitBreaker(name, config).
Created(config) ==
    /\ cfg = config
    /\ state = "CLOSED"
    /\ failureCount = 0
    /\ successCount = 0
    /\ lastFailureTime = -1
    /\ lastStateChangeTime = 0
    /\ call = [c \in Callers |-> IdleCall]
    /\ cbOutcome = [c \in Callers |-> "none"]
    /\ consecFail = 0
    /\ consecSucc = -1
    /\ trippedAt = -1

CbInit == \E config \in BreakerConfigs : Created(config)

\* The breaker of a specification that is about another component.
CbIdle ==
    Created([failureThreshold |-> 1, successThreshold |-> 1,
             timeoutMs |-> 1, resetTimeoutMs |-> 1])

\* timeInOpenState >= cfg.timeoutMs, with timeInOpenState = now - lastStateChangeTime
OpenTimeoutElapsed(t, since) == t - since >= cfg.timeoutMs

\* timeInHalfOpenState >= cfg.resetTimeoutMs
HalfOpenTimeoutElapsed(t, since) == t - since >= cfg.resetTimeoutMs

\* failureCount >= cfg.failureThreshold
FailureThresholdReachedStrict(n) == n > cfg.failureThreshold

FailureThresholdReached(n) == n >= cfg.failureThreshold

\* successCount >= cfg.successThreshold
SuccessThresholdReachedStrict(n) == n > cfg.successThreshold

SuccessThresholdReached(n) == n >= cfg.successThreshold

Max(a, b) == IF a >= b THEN a ELSE b

Min(a, b) == IF a <= b THEN a ELSE b

\* execute(fn, fallback) is entered by caller c: lines 51-91, up to the
\* first await (of fallback() or of fn()).
ExecuteBegin(c) ==
    /\ call[c].pc = "idle"
    /\ LET t == now
           toHalfOpen == state = "OPEN" /\ OpenTimeoutElapsed(t, lastStateChangeTime)
           shortCircuit == state = "OPEN" /\ ~toHalfOpen
           \* state and lastStateChangeTime as the second check reads them
           state1 == IF toHalfOpen THEN "HALF_OPEN" ELSE state
           since1 == IF toHalfOpen THEN t ELSE lastStateChangeTime
           halfOpenExpired == /\ ~shortCircuit
                              /\ state1 = "HALF_OPEN"
                              /\ HalfOpenTimeoutElapsed(t, since1)
       IN  /\ state' = IF halfOpenExpired THEN "OPEN" ELSE state1
           /\ lastStateChangeTime' = IF halfOpenExpired THEN t ELSE since1
           /\ successCount' = IF toHalfOpen THEN 0 ELSE successCount
           /\ call' = [call EXCEPT ![c] =
                         [pc |-> IF shortCircuit \/ halfOpenExpired
                                   THEN "fallback" ELSE "running",
                          now |-> t]]
           /\ consecSucc' = IF toHalfOpen /\ ~halfOpenExpired THEN 0 ELSE consecSucc
           /\ trippedAt' = IF toHalfOpen THEN -1 ELSE trippedAt
    /\ UNCHANGED <<now, cfg, failureCount, lastFailureTime, cbOutcome, consecFail>>

\* The awaited fallback() of a short-circuited call resolves: return fallbackValue.
FallbackReturns(c) ==
    /\ call[c].pc = "fallback"
    /\ call' = [call EXCEPT ![c].pc = "idle"]
    /\ cbOutcome' = [cbOutcome EXCEPT ![c] = "fallback"]
    /\ consecFail' = 0
    /\ consecSucc' = -1
    /\ UNCHANGED <<now, cfg, state, failureCount, successCount, lastFailureTime,
                   lastStateChangeTime, trippedAt>>

\* state === HALF_OPEN, then successCount++ and successCount >= cfg.successThreshold
ClosesUnlessClosed(s, n) == s # "CLOSED" /\ SuccessThresholdReached(n + 1)

Closes(s, n) == s = "HALF_OPEN" /\ SuccessThresholdReached(n + 1)

\* await fn() resolved, with failureCount = 0 in place of line 108
ExecuteSucceedsClearsFailures(c) ==
    /\ call[c].pc = "running"
    /\ LET closes == Closes(state, successCount)
       IN  /\ state' = IF closes THEN "CLOSED" ELSE state
           /\ successCount' = IF state = "HALF_OPEN"
                                THEN (IF closes THEN 0 ELSE successCount + 1)
                                ELSE successCount
           /\ failureCount' = IF closes \/ state = "CLOSED" THEN 0 ELSE failureCount
           /\ lastStateChangeTime' = IF closes THEN call[c].now ELSE lastStateChangeTime
    /\ call' = [call EXCEPT ![c].pc = "idle"]
    /\ cbOutcome' = [cbOutcome EXCEPT ![c] = "result"]
    /\ consecFail' = 0
    /\ consecSucc' = IF consecSucc >= 0 THEN Min(consecSucc + 1, MaxThreshold) ELSE -1
    /\ UNCHANGED <<now, cfg, lastFailureTime, trippedAt>>

\* await fn() resolved: lines 93-111.
ExecuteSucceeds(c) ==
    /\ call[c].pc = "running"
    /\ LET closes == Closes(state, successCount)
       IN  /\ state' = IF closes THEN "CLOSED" ELSE state
           /\ successCount' = IF state = "HALF_OPEN"
                                THEN (IF closes THEN 0 ELSE successCount + 1)
                                ELSE successCount
           /\ failureCount' = IF closes THEN 0
                              ELSE IF state = "CLOSED" THEN Max(0, failureCount - 1)
                              ELSE failureCount
           /\ lastStateChangeTime' = IF closes THEN call[c].now ELSE lastStateChangeTime
    /\ call' = [call EXCEPT ![c].pc = "idle"]
    /\ cbOutcome' = [cbOutcome EXCEPT ![c] = "result"]
    /\ consecFail' = 0
    /\ consecSucc' = IF consecSucc >= 0 THEN Min(consecSucc + 1, MaxThreshold) ELSE -1
    /\ UNCHANGED <<now, cfg, lastFailureTime, trippedAt>>

\* throw error: execute() of caller c rejects with the error fn() rejected with
RethrowAsFallback(c) ==
    /\ call' = [call EXCEPT ![c].pc = IF state' = "OPEN" THEN "fallback" ELSE "idle"]
    /\ cbOutcome' = [cbOutcome EXCEPT ![c] = IF state' = "OPEN" THEN @ ELSE "error"]

Rethrow(c) ==
    /\ call' = [call EXCEPT ![c].pc = "idle"]
    /\ cbOutcome' = [cbOutcome EXCEPT ![c] = "error"]

\* await fn() rejected, without the else-if branch of lines 133-141
ExecuteFailsNoReopen(c) ==
    /\ call[c].pc = "running"
    /\ failureCount' = failureCount + 1
    /\ lastFailureTime' = call[c].now
    /\ LET opens == state = "CLOSED" /\ FailureThresholdReached(failureCount + 1)
       IN  /\ state' = IF opens THEN "OPEN" ELSE state
           /\ lastStateChangeTime' = IF opens THEN call[c].now
                                     ELSE lastStateChangeTime
           /\ trippedAt' = IF opens THEN now ELSE trippedAt
    /\ Rethrow(c)
    /\ consecFail' = Min(consecFail + 1, MaxThreshold)
    /\ consecSucc' = -1
    /\ UNCHANGED <<now, cfg, successCount>>

\* await fn() rejected: lines 112-145; the error is rethrown.
ExecuteFails(c) ==
    /\ call[c].pc = "running"
    /\ failureCount' = failureCount + 1
    /\ lastFailureTime' = call[c].now
    /\ LET opens == state = "CLOSED" /\ FailureThresholdReached(failureCount + 1)
           reopens == ~opens /\ state = "HALF_OPEN"
       IN  /\ state' = IF opens \/ reopens THEN "OPEN" ELSE state
           /\ lastStateChangeTime' = IF opens \/ reopens THEN call[c].now
                                     ELSE lastStateChangeTime
           /\ successCount' = IF reopens THEN 0 ELSE successCount
           /\ trippedAt' = IF opens THEN now ELSE trippedAt
    /\ Rethrow(c)
    /\ consecFail' = Min(consecFail + 1, MaxThreshold)
    /\ consecSucc' = -1
    /\ UNCHANGED <<now, cfg>>

\* a reset() that sets the state and the times only
ResetKeepsCounts ==
    /\ state' = "CLOSED"
    /\ lastFailureTime' = -1
    /\ lastStateChangeTime' = now
    /\ consecFail' = 0
    /\ consecSucc' = -1
    /\ trippedAt' = -1
    /\ UNCHANGED <<now, cfg, call, cbOutcome, failureCount, successCount>>

\* reset()
Reset ==
    /\ state' = "CLOSED"
    /\ failureCount' = 0
    /\ successCount' = 0
    /\ lastFailureTime' = -1
    /\ lastStateChangeTime' = now
    /\ consecFail' = 0
    /\ consecSucc' = -1
    /\ trippedAt' = -1
    /\ UNCHANGED <<now, cfg, call, cbOutcome>>

\* Time passes.
Tick ==
    /\ now < MaxTime
    /\ now' = now + 1

\* A time recorded from Date.now(), seen from a clock whose origin has moved
\* on by one; -1 stands for null, and a time at the origin stays there.
Earlier(t) == IF t <= 0 THEN t ELSE t - 1

\* Time passes, without end: once now is at MaxTime the origin of the clock
\* moves on instead, which leaves every difference now - t that is below
\* MaxTime as it would be and keeps the others at MaxTime, above every
\* duration of cfg.
TimePasses ==
    IF now < MaxTime
      THEN /\ now' = now + 1
           /\ UNCHANGED cbVars
      ELSE /\ now' = now
           /\ lastStateChangeTime' = Earlier(lastStateChangeTime)
           /\ lastFailureTime' = Earlier(lastFailureTime)
           /\ trippedAt' = Earlier(trippedAt)
           /\ call' = [c \in Callers |-> [call[c] EXCEPT !.now = Earlier(@)]]
           /\ UNCHANGED <<cfg, state, failureCount, successCount, cbOutcome,
                          consecFail, consecSucc>>

CbNext(cs) ==
    \/ \E c \in cs : ExecuteBegin(c) /\ UNCHANGED notCb
    \/ \E c \in cs : FallbackReturns(c) /\ UNCHANGED notCb
    \/ \E c \in cs : ExecuteSucceeds(c) /\ UNCHANGED notCb
    \/ \E c \in cs : ExecuteFails(c) /\ UNCHANGED notCb
    \/ Reset /\ UNCHANGED notCb
    \/ Tick /\ UNCHANGED <<cbVars, notCb>>

-----------------------------------------------------------------------------
(***************************************************************************)
(* fetchWithRetry with its per-attempt timers and the clock                *)
(***************************************************************************)

AbortError == FetchError("AbortError", "none")

\* The configurations of the timed runs: the retry predicate plays no part in
\* the timers, so three predicates stand for all.
TimedConfigs == {c \in RetryConfigs : c.shouldRetry \in {{}, DefaultRetryable, NonOk}}

\* setTimeout(() => controller.abort(), timeoutMs) for the controller of attempt a
SetTimeout(ts, a) == ts \cup {[attempt |-> a, due |-> now + frTimeoutMs']}

\* clearTimeout(timeoutId) of attempt a's timer
ClearTimeoutSkipped(ts, a) == ts

ClearTimeout(ts, a) == {tm \in ts : tm.attempt # a}

\* fetchWithRetry is called with config.timeoutMs = t: attempt 0 creates its
\* controller and timer and issues fetch() with the controller's signal.
TimedCall(config, t) ==
    /\ FetchWithRetryCall(config)
    /\ frTimeoutMs' = t
    /\ timers' = SetTimeout(timers, 0)
    /\ aborted' = {}
    /\ fetchStart' = now
    /\ settledAfter' = -1
    /\ UNCHANGED now

\* A timer is due: its callback aborts the controller it was created with.
TimerFires ==
    /\ \E tm \in timers :
          /\ tm.due <= now
          /\ timers' = timers \ {tm}
          /\ aborted' = aborted \cup {tm.attempt}
    /\ UNCHANGED <<now, frVars, frTimeoutMs, fetchStart, settledAfter>>

\* The pending fetch() settles: it rejects with an AbortError exactly when
\* its signal has been aborted (the signal passed to fetch is the
\* controller's; options.signal is overridden); clearTimeout follows in both
\* branches.
TimedFetchSettles(o) ==
    /\ FetchSettles(o)
    /\ (o = AbortError) <=> (attempt \in aborted)
    /\ timers' = ClearTimeout(timers, attempt)
    /\ settledAfter' = now - fetchStart
    /\ UNCHANGED <<now, frTimeoutMs, aborted, fetchStart>>

\* The backoff sleep ends; when the loop goes on, the next attempt creates
\* its own controller and timer.
TimedSleepDone ==
    /\ SleepDone
    /\ frTimeoutMs' = frTimeoutMs
    /\ IF frPc' = "fetching"
         THEN /\ timers' = SetTimeout(timers, attempt')
              /\ fetchStart' = now
         ELSE UNCHANGED <<timers, fetchStart>>
    /\ UNCHANGED <<now, aborted, settledAfter>>

TimedDone ==
    /\ FetchWithRetryDone
    /\ aborted' = {}
    /\ settledAfter' = -1
    /\ UNCHANGED <<now, frTimeoutMs, timers, fetchStart>>

\* Time passes, unless a timer is due or an aborted fetch() has its rejection
\* pending: timer callbacks and promise reactions run without delay.
TimedTick ==
    /\ \A tm \in timers : tm.due > now
    /\ ~(frPc = "fetching" /\ attempt \in aborted)
    /\ Tick
    /\ UNCHANGED <<frVars, tmVars>>

TmNext ==
    \/ \E config \in TimedConfigs, t \in 1..MaxDuration :
          TimedCall(config, t) /\ UNCHANGED notTm
    \/ TimerFires /\ UNCHANGED notTm
    \/ \E o \in Outcomes : TimedFetchSettles(o) /\ UNCHANGED notTm
    \/ TimedSleepDone /\ UNCHANGED notTm
    \/ TimedDone /\ UNCHANGED notTm
    \/ TimedTick /\ UNCHANGED notTm

-----------------------------------------------------------------------------
(***************************************************************************)
(* Idempotency service                                                     *)
(***************************************************************************)

\* the webhook deliveries that may be in flight together
Workers == {1, 2}

\* message.id of a webhook delivery; "" stands for an absent or empty id
MsgIds == {"", "m1"}

RealIds == MsgIds \ {""}

\* 24 hours, in ticks of the model's clock
IDEMPOTENCY_TTL_SECONDS == 2

\* The clock's last tick in the runs of the idempotency service: one past
\* the TTL, so that keys expire and the cleanup finds entries to delete.
MaxIdTime == 3

IdleProc == [pc |-> "idle", id |-> "", dup |-> FALSE, ran |-> FALSE,
             result |-> "none", seen |-> "never", after |-> FALSE, with |-> {},
             afterThrow |-> FALSE, storeErr |-> "none"]

IdInit ==
    /\ redisStatus \in {"none", "ready", "down"}
    /\ redisKeys = [i \in MsgIds |-> 0]
    /\ inMemoryStore = [i \in MsgIds |-> -1]
    /\ proc = [w \in Workers |-> IdleProc]
    /\ runs = [i \in RealIds |-> 0]
    /\ markTime = [i \in MsgIds |-> -1]
    /\ firstDone = {}

\* The idempotency service of a specification that is about another component.
IdIdle == IdInit /\ redisStatus = "none"

\* useRedis && redisClient: a client exists and its status is 'ready'
UseRedis == redisStatus = "ready"

\* redisClient.exists(key) === 1: the key is there and has not expired
RedisExists(i) == redisKeys[i] > now

\* inMemoryStore.has(messageId)
InMemoryHas(i) == inMemoryStore[i] >= 0

\* The id was marked less than the TTL ago.
WithinWindow(i) == markTime[i] >= 0 /\ now - markTime[i] < IDEMPOTENCY_TTL_SECONDS

\* History kept with a call: whether its id had never been marked when the
\* call began ("never"), or had been marked and was within the TTL window
\* both then and when the store answered ("fresh"), or not ("stale").
SeenAtBegin(i) ==
    IF i = "" \/ markTime[i] < 0 THEN "never"
    ELSE IF WithinWindow(i) THEN "fresh" ELSE "stale"

SeenAtReply(w) ==
    IF proc[w].seen = "fresh" /\ ~WithinWindow(proc[w].id) THEN "stale" ELSE proc[w].seen

\* The guard on the id left out.
NoMessageIdIgnored(i) == FALSE

\* !messageId: the delivery carries no id
NoMessageId(i) == i = ""

\* processWithIdempotency(messageId, processor) is called by worker w:
\* isDuplicate runs up to its await of exists(), or to its return.
ProcessBegin(w, i) ==
    /\ proc[w].pc = "idle"
    /\ proc' = [q \in Workers |->
                 IF q = w
                   THEN [pc |-> IF ~NoMessageId(i) /\ UseRedis THEN "exists"
                                ELSE "checked",
                         id |-> i,
                         dup |-> IF ~NoMessageId(i) /\ ~UseRedis THEN InMemoryHas(i)
                                 ELSE FALSE,
                         ran |-> FALSE,
                         result |-> "none",
                         seen |-> SeenAtBegin(i),
                         after |-> i \in firstDone,
                         afterThrow |-> \E r \in Workers \ {w} :
                                          /\ i # ""
                                          /\ proc[r].pc = "idle"
                                          /\ proc[r].result = "error"
                                          /\ proc[r].id = i,
                         storeErr |-> "none",
                         with |-> {r \in Workers \ {w} :
                                     proc[r].pc # "idle" /\ proc[r].id = i}]
                   ELSE [proc[q] EXCEPT !.with = @ \ {w}]]
    /\ UNCHANGED <<now, redisStatus, redisKeys, inMemoryStore, runs, markTime, firstDone>>

\* exists() replies: return exists === 1
RedisExistsReplies(w) ==
    /\ proc[w].pc = "exists"
    /\ proc' = [proc EXCEPT ![w].pc = "checked",
                            ![w].dup = RedisExists(proc[w].id),
                            ![w].seen = SeenAtReply(w)]
    /\ UNCHANGED <<now, redisStatus, redisKeys, inMemoryStore, runs, markTime, firstDone>>

\* exists() rejects and nothing catches it: the call ends with the store's
\* error.
ExistsRejectedUncaught(w) ==
    [proc EXCEPT ![w].pc = "idle", ![w].result = "error", ![w].storeErr = "exists"]

\* catch (error) of isDuplicate: log, and fall through to inMemoryStore.has
ExistsRejected(w) ==
    [proc EXCEPT ![w].pc = "checked",
                 ![w].dup = InMemoryHas(proc[w].id),
                 ![w].seen = SeenAtReply(w),
                 ![w].storeErr = "exists"]

\* exists() rejects: the catch falls through to inMemoryStore.has
RedisExistsFails(w) ==
    /\ proc[w].pc = "exists"
    /\ proc' = ExistsRejected(w)
    /\ UNCHANGED <<now, redisStatus, redisKeys, inMemoryStore, runs, markTime, firstDone>>

\* inMemoryStore.set(messageId, { timestamp: Date.now(), processed: true })
InMemorySet(i) ==
    /\ inMemoryStore' = [inMemoryStore EXCEPT ![i] = now]
    /\ markTime' = [markTime EXCEPT ![i] = now]
    /\ UNCHANGED redisKeys

\* await isDuplicate(messageId) resumes: a duplicate is reported, or
\* markAsProcessed runs up to its await of setex(), or to its return.
AfterCheck(w) ==
    /\ proc[w].pc = "checked"
    /\ LET i == proc[w].id
       IN  IF proc[w].dup
             THEN /\ proc' = [proc EXCEPT ![w].pc = "idle", ![w].result = "duplicate",
                                          ![w].storeErr = "none"]
                  /\ UNCHANGED <<redisKeys, inMemoryStore, markTime>>
             ELSE IF NoMessageId(i)
               THEN /\ proc' = [proc EXCEPT ![w].pc = "marked", ![w].storeErr = "none"]
                    /\ UNCHANGED <<redisKeys, inMemoryStore, markTime>>
               ELSE IF UseRedis
                 THEN /\ proc' = [proc EXCEPT ![w].pc = "setex", ![w].storeErr = "none"]
                      /\ UNCHANGED <<redisKeys, inMemoryStore, markTime>>
                 ELSE /\ proc' = [proc EXCEPT ![w].pc = "marked", ![w].storeErr = "none"]
                      /\ InMemorySet(i)
    /\ UNCHANGED <<now, redisStatus, runs, firstDone>>

\* setex(key, IDEMPOTENCY_TTL_SECONDS, '1') replies
RedisSetexReplies(w) ==
    /\ proc[w].pc = "setex"
    /\ redisKeys' = [redisKeys EXCEPT ![proc[w].id] = now + IDEMPOTENCY_TTL_SECONDS]
    /\ markTime' = [markTime EXCEPT ![proc[w].id] = now]
    /\ proc' = [proc EXCEPT ![w].pc = "marked"]
    /\ UNCHANGED <<now, redisStatus, inMemoryStore, runs, firstDone>>

\* setex() rejects: the catch falls through to inMemoryStore.set
RedisSetexFails(w) ==
    /\ proc[w].pc = "setex"
    /\ InMemorySet(proc[w].id)
    /\ proc' = [proc EXCEPT ![w].pc = "marked", ![w].storeErr = "setex"]
    /\ UNCHANGED <<now, redisStatus, runs, firstDone>>

\* await markAsProcessed(messageId) resumes: processor() is invoked
ProcessorStarts(w) ==
    /\ proc[w].pc = "marked"
    /\ proc' = [proc EXCEPT ![w].pc = "processing", ![w].ran = TRUE,
                            ![w].storeErr = "none"]
    /\ runs' = IF proc[w].id = "" THEN runs
               ELSE [runs EXCEPT ![proc[w].id] = Min(@ + 1, 2)]
    /\ UNCHANGED <<now, redisStatus, redisKeys, inMemoryStore, markTime, firstDone>>

\* await processor() resolves: return { isDuplicate: false, result }
ProcessorReturns(w) ==
    /\ proc[w].pc = "processing"
    /\ proc' = [proc EXCEPT ![w].pc = "idle", ![w].result = "processed"]
    /\ firstDone' = firstDone \cup ({proc[w].id} \ {""})
    /\ UNCHANGED <<now, redisStatus, redisKeys, inMemoryStore, runs, markTime>>

\* await processor() rejects: throw error
ProcessorThrows(w) ==
    /\ proc[w].pc = "processing"
    /\ proc' = [proc EXCEPT ![w].pc = "idle", ![w].result = "error"]
    /\ firstDone' = firstDone \cup ({proc[w].id} \ {""})
    /\ UNCHANGED <<now, redisStatus, redisKeys, inMemoryStore, runs, markTime>>

\* The Redis client's status changes (connection lost, or ready again).
RedisStatusChanges ==
    /\ redisStatus # "none"
    /\ redisStatus' = IF redisStatus = "ready" THEN "down" ELSE "ready"
    /\ UNCHANGED <<now, redisKeys, inMemoryStore, proc, runs, markTime, firstDone>>

\* cleanupInMemoryStore, run by setInterval
CleanupInMemoryStore ==
    /\ inMemoryStore' = [i \in MsgIds |->
                           IF inMemoryStore[i] >= 0
                              /\ now - inMemoryStore[i] > IDEMPOTENCY_TTL_SECONDS
                             THEN -1 ELSE inMemoryStore[i]]
    /\ UNCHANGED <<now, redisStatus, redisKeys, proc, runs, markTime, firstDone>>

\* Time passes, up to the end of the runs checked.
IdTick ==
    /\ now < MaxIdTime
    /\ now' = now + 1

IdNext ==
    \/ \E w \in Workers, i \in MsgIds : ProcessBegin(w, i) /\ UNCHANGED notId
    \/ \E w \in Workers : RedisExistsReplies(w) /\ UNCHANGED notId
    \/ \E w \in Workers : RedisExistsFails(w) /\ UNCHANGED notId
    \/ \E w \in Workers : AfterCheck(w) /\ UNCHANGED notId
    \/ \E w \in Workers : RedisSetexReplies(w) /\ UNCHANGED notId
    \/ \E w \in Workers : RedisSetexFails(w) /\ UNCHANGED notId
    \/ \E w \in Workers : ProcessorStarts(w) /\ UNCHANGED notId
    \/ \E w \in Workers : ProcessorReturns(w) /\ UNCHANGED notId
    \/ \E w \in Workers : ProcessorThrows(w) /\ UNCHANGED notId
    \/ RedisStatusChanges /\ UNCHANGED notId
    \/ CleanupInMemoryStore /\ UNCHANGED notId
    \/ IdTick /\ UNCHANGED <<idVars, notId>>

-----------------------------------------------------------------------------
(***************************************************************************)
(* Message splitter                                                        *)
(***************************************************************************)

\* A string is the sequence of its characters. "a" stands for any character
\* that is neither whitespace nor a sentence end, "." for '.', '!' and '?'.
Alphabet == {"a", " ", ".", "\n"}

IsSpace(ch) == ch \in {" ", "\n"}

IsSentenceEnd(ch) == ch = "."

Texts == UNION {[1..n -> Alphabet] : n \in 0..MaxTextLen}

\* Texts of lines without sentence ends, and the maxLength each is split
\* with: long enough for a line break to lie beyond 80% of maxLength.
LineInputs ==
    {in \in (UNION {[1..n -> {"a", "\n"}] : n \in 6..MaxLineLen})
                \X (5..(MaxLineLen - 1)) : Len(in[1]) > in[2]}

\* the text of k 'A' characters
Repeated(k) == [i \in 1..k |-> "a"]

\* the window searched for a sentence boundary: 200 characters in the
\* source, scaled to the model's text lengths
LookbackWindow == 3

\* s.substring(from, to), indices counted from 0
Substring(s, from, to) == SubSeq(s, from + 1, Min(to, Len(s)))

\* s.trim()
Trim(s) ==
    LET keep == {i \in 1..Len(s) : ~IsSpace(s[i])}
    IN  IF keep = {} THEN <<>>
        ELSE SubSeq(s, CHOOSE i \in keep : \A j \in keep : i <= j,
                       CHOOSE i \in keep : \A j \in keep : i >= j)

IsNewline(ch) == ch = "\n"

\* \s+ from position i of s (counted from 1): the length of the longest run
\* of whitespace that starts there
SpaceRunLength(s, i) ==
    LET ends == {k \in i..(Len(s) + 1) : \A j \in i..(k - 1) : IsSpace(s[j])}
    IN  (CHOOSE k \in ends : \A m \in ends : k >= m) - i

\* \n+ from position i of s: the length of the longest run of newlines that
\* starts there
NewlineRunLength(s, i) ==
    LET ends == {k \in i..(Len(s) + 1) : \A j \in i..(k - 1) : IsNewline(s[j])}
    IN  (CHOOSE k \in ends : \A m \in ends : k >= m) - i

\* The length of the match of /[.!?]\s+|\n\n+/ that starts at position i of
\* s (counted from 1), 0 when none starts there.
MatchLengthAt(s, i) ==
    IF i < Len(s) /\ IsSentenceEnd(s[i]) /\ IsSpace(s[i + 1])
      THEN 1 + SpaceRunLength(s, i + 1)
      ELSE IF i < Len(s) /\ IsNewline(s[i]) /\ IsNewline(s[i + 1])
        THEN NewlineRunLength(s, i)
        ELSE 0

\* a match() that never finds the pattern
MatchNull(s) == [index |-> -1, length |-> 0]

\* searchArea.match(sentenceEndPattern): [index, length] of the leftmost
\* match, index counted from 0; index -1 for null.
Match(s) ==
    LET starts == {i \in 1..Len(s) : MatchLengthAt(s, i) > 0}
    IN  IF starts = {} THEN [index |-> -1, length |-> 0]
        ELSE LET i == CHOOSE i \in starts : \A j \in starts : i <= j
             IN  [index |-> i - 1, length |-> MatchLengthAt(s, i)]

\* chunk.lastIndexOf('\n'), counted from 0; -1 when there is none
LastIndexOfNewline(s) ==
    LET at == {i \in 1..Len(s) : IsNewline(s[i])}
    IN  IF at = {} THEN -1 ELSE (CHOOSE i \in at : \A j \in at : i >= j) - 1

\* lineBreakIndex > maxLength * 0.8
LineBreakAccepted(lineBreakIndex, m) == 5 * lineBreakIndex > 4 * m

\* message.length <= maxLength (line 22)
FitsWholeOffByOne(s, m) == Len(s) <= m + 1

FitsWhole(s, m) == Len(s) <= m

\* remaining.length <= maxLength (line 33)
RemainingFitsOffByOne(s, m) == Len(s) <= m + 1

RemainingFits(s, m) == Len(s) <= m

\* a split index that cuts nothing off
SplitIndexZero(rem, m) == 0

\* splitIndex of one loop iteration: lines 39-63
SplitIndex(rem, m) ==
    LET chunk == Substring(rem, 0, m)
        lookbackWindow == Min(LookbackWindow, Len(chunk))
        searchArea == Substring(chunk, Len(chunk) - lookbackWindow, Len(chunk))
        match == Match(searchArea)
        lineBreakIndex == LastIndexOfNewline(chunk)
    IN  IF match.index >= 0
          THEN Len(chunk) - lookbackWindow + match.index + match.length
          ELSE IF LineBreakAccepted(lineBreakIndex, m)
            THEN lineBreakIndex + 1
            ELSE m

\* chunkText = remaining.substring(0, splitIndex).trim()
ChunkTextDropsLast(rem, k) == Trim(Substring(rem, 0, k - 1))

ChunkText(rem, k) == Trim(Substring(rem, 0, k))

\* remaining = remaining.substring(splitIndex).trim()
RestSkipsOne(rem, k) == Trim(Substring(rem, k + 1, Len(rem)))

Rest(rem, k) == Trim(Substring(rem, k, Len(rem)))

SpInit ==
    /\ spPc = "idle"
    /\ message = <<>>
    /\ maxLength = 1
    /\ remaining = <<>>
    /\ chunks = <<>>
    /\ trimmed = 0

\* splitMessage(text, m) is called: lines 17-29.
SplitMessageCall(text, m) ==
    /\ spPc = "idle"
    /\ message' = text
    /\ maxLength' = m
    /\ trimmed' = 0
    /\ IF text = <<>>
         THEN \* !message
              /\ spPc' = "returned"
              /\ chunks' = <<>>
              /\ remaining' = <<>>
         ELSE IF FitsWhole(text, m)
           THEN /\ spPc' = "returned"
                /\ chunks' = <<text>>
                /\ remaining' = <<>>
           ELSE /\ spPc' = "loop"
                /\ chunks' = <<>>
                /\ remaining' = text

\* One test of the while condition and one pass through the loop body:
\* lines 31-71.
SplitMessageIteration ==
    /\ spPc = "loop"
    /\ IF Len(remaining) = 0
         THEN /\ spPc' = "returned"
              /\ UNCHANGED <<remaining, chunks, trimmed>>
         ELSE IF RemainingFits(remaining, maxLength)
           THEN /\ chunks' = Append(chunks, remaining)
                /\ spPc' = "returned"
                /\ UNCHANGED <<remaining, trimmed>>
           ELSE LET splitIndex == SplitIndex(remaining, maxLength)
                    chunkText == ChunkText(remaining, splitIndex)
                    rest == Rest(remaining, splitIndex)
                IN  /\ chunks' = Append(chunks, chunkText)
                    /\ remaining' = rest
                    /\ trimmed' = trimmed + (Len(remaining) - Len(chunkText) - Len(rest))
                    /\ spPc' = "loop"
    /\ UNCHANGED <<message, maxLength>>

\* The caller has taken the chunks.
SplitMessageDone ==
    /\ spPc = "returned"
    /\ spPc' = "idle"
    /\ message' = <<>>
    /\ maxLength' = 1
    /\ remaining' = <<>>
    /\ chunks' = <<>>
    /\ trimmed' = 0

SpNext ==
    \/ /\ spPc = "idle"
       /\ \E text \in Texts, m \in 1..MaxChunkLen :
             SplitMessageCall(text, m) /\ UNCHANGED notSp
    \/ /\ spPc = "idle"
       /\ \E in \in LineInputs : SplitMessageCall(in[1], in[2]) /\ UNCHANGED notSp
    \/ SplitMessageIteration /\ UNCHANGED notSp
    \/ SplitMessageDone /\ UNCHANGED notSp

-----------------------------------------------------------------------------
(***************************************************************************)
(* Sending a reply: splitMessageWithIndicators and                         *)
(* sendTextMessageWithSplitting                                            *)
(***************************************************************************)

\* The WhatsApp limit: 4096 characters in the source, scaled to the model's
\* text lengths.
WHATSAPP_MESSAGE_MAX_LENGTH == 4

RECURSIVE SplitLoop(_, _, _)
\* the while loop of splitMessage, run to its end
SplitLoop(rem, m, acc) ==
    IF Len(rem) = 0 THEN acc
    ELSE IF RemainingFits(rem, m) THEN Append(acc, rem)
    ELSE LET splitIndex == SplitIndex(rem, m)
         IN  SplitLoop(Rest(rem, splitIndex), m,
                       Append(acc, ChunkText(rem, splitIndex)))

\* splitMessage(text, m)
SplitMessage(text, m) ==
    IF text = <<>> THEN <<>>
    ELSE IF FitsWhole(text, m) THEN <<text>>
    ELSE SplitLoop(text, m, <<>>)

\* The indicator numbered from 0, as the array index is.
IndicatorFromZero(index, total) ==
    <<"[Part " \o ToString(index) \o "/" \o ToString(total) \o "]\n\n">>

\* `[Part ${index + 1}/${chunks.length}]\n\n`, index counted from 0. The
\* indicator's twelve or more characters are scaled with the limit: the
\* whole indicator takes one position of the body.
Indicator(index, total) ==
    <<"[Part " \o ToString(index + 1) \o "/" \o ToString(total) \o "]\n\n">>

\* splitMessageWithIndicators(text)
SplitMessageWithIndicators(text) ==
    LET cs == SplitMessage(text, WHATSAPP_MESSAGE_MAX_LENGTH)
    IN  IF Len(cs) <= 1 THEN cs
        ELSE [i \in 1..Len(cs) |-> Indicator(i - 1, Len(cs)) \o cs[i]]

\* validateMessageLength(body): "ok", or why it throws
ValidateMessageLength(body) ==
    IF body = <<>> THEN "empty"
    ELSE IF Len(body) > WHATSAPP_MESSAGE_MAX_LENGTH THEN "too long"
    ELSE "ok"

\* Replies long enough to be sent in three chunks: three short sentences,
\* and a reply whose middle chunk is cut at the limit.
LongReplies ==
    {<<"a", ".", " ", "a", ".", " ", "a", ".">>,
     <<"a", ".", " ", "a", "a", "a", "a", " ", "a", ".">>}

\* The replies sent: within the limit and over it.
SendTexts == Texts \cup LongReplies

\* The chunks taken from the far end of the array.
ChunkAtReversed(cs, i) == cs[Len(cs) - i]

\* chunks[i], i counted from 0
ChunkAt(cs, i) == cs[i + 1]

SdInit ==
    /\ sdPc = "idle"
    /\ sdMessage = <<>>
    /\ sdSplitting = TRUE
    /\ sdChunks = <<>>
    /\ sdI = 0
    /\ sentChunks = <<>>
    /\ failedChunks = <<>>
    /\ sdApiBodies = <<>>
    /\ sdRejected = {}

\* sendTextMessage(to, body) is invoked for chunk number n: the length check
\* runs at once, and only a body that passes it is posted to the API.
InvokeSendTextMessage(body, n) ==
    LET verdict == ValidateMessageLength(body)
    IN  /\ sdApiBodies' = IF verdict = "ok" THEN Append(sdApiBodies, body)
                          ELSE sdApiBodies
        /\ sdRejected' = IF verdict = "ok" THEN sdRejected
                         ELSE sdRejected \cup {[chunk |-> n, why |-> verdict]}

\* sendTextMessageWithSplitting(to, text) is called: lines 113-137, up to
\* the first await.
SendTextMessageWithSplittingCall(text, enabled) ==
    /\ sdPc = "idle"
    /\ sdMessage' = text
    /\ sdSplitting' = enabled
    /\ sdChunks' = IF ~enabled \/ Len(text) <= WHATSAPP_MESSAGE_MAX_LENGTH
                     THEN <<text>>
                     ELSE SplitMessageWithIndicators(text)
    /\ sdI' = 0
    /\ sentChunks' = <<>>
    /\ failedChunks' = <<>>
    /\ IF sdChunks' = <<>>
         THEN \* the for loop has nothing to send
              /\ sdPc' = "returned"
              /\ sdApiBodies' = <<>>
              /\ sdRejected' = {}
         ELSE /\ sdPc' = "sending"
              /\ LET body == ChunkAt(sdChunks', 0)
                     verdict == ValidateMessageLength(body)
                 IN  /\ sdApiBodies' = IF verdict = "ok" THEN <<body>> ELSE <<>>
                     /\ sdRejected' = IF verdict = "ok" THEN {}
                                      ELSE {[chunk |-> 1, why |-> verdict]}

\* No failure ends the loop.
FirstChunkNever(i) == FALSE

\* A failure of either of the first two chunks ends the loop.
FirstChunkOrSecond(i) == i <= 1

\* i === 0: the first chunk failed, fail fast
FirstChunk(i) == i = 0

\* The awaited sendTextMessage settles: it rejects when the length check
\* threw, and otherwise resolves or rejects as the API call went.
SendTextMessageSettles(ok) ==
    /\ sdPc = "sending"
    /\ ok => ValidateMessageLength(ChunkAt(sdChunks, sdI)) = "ok"
    /\ IF Len(sdChunks) = 1
         THEN \* return sendTextMessage(...)
              /\ sdPc' = IF ok THEN "returned" ELSE "thrown"
              /\ UNCHANGED <<sentChunks, failedChunks>>
         ELSE /\ sentChunks' = IF ok THEN Append(sentChunks, sdI + 1) ELSE sentChunks
              /\ failedChunks' = IF ok THEN failedChunks
                                  ELSE Append(failedChunks, sdI + 1)
              /\ sdPc' = IF ~ok /\ FirstChunk(sdI) THEN "thrown"
                         ELSE IF sdI < Len(sdChunks) - 1 THEN "delay"
                         ELSE "returned"
    /\ UNCHANGED <<sdMessage, sdSplitting, sdChunks, sdI, sdApiBodies, sdRejected>>

\* The delay between chunks is over: i++, and the next chunk is sent.
DelayBetweenChunksDone ==
    /\ sdPc = "delay"
    /\ sdI' = sdI + 1
    /\ sdPc' = "sending"
    /\ InvokeSendTextMessage(ChunkAt(sdChunks, sdI + 1), sdI + 2)
    /\ UNCHANGED <<sdMessage, sdSplitting, sdChunks, sentChunks, failedChunks>>

\* The caller has the outcome.
SendTextMessageWithSplittingDone ==
    /\ sdPc \in {"returned", "thrown"}
    /\ sdPc' = "idle"
    /\ sdMessage' = <<>>
    /\ sdSplitting' = TRUE
    /\ sdChunks' = <<>>
    /\ sdI' = 0
    /\ sentChunks' = <<>>
    /\ failedChunks' = <<>>
    /\ sdApiBodies' = <<>>
    /\ sdRejected' = {}

SdNext ==
    \/ /\ sdPc = "idle"
       /\ \E text \in SendTexts, enabled \in BOOLEAN :
             SendTextMessageWithSplittingCall(text, enabled) /\ UNCHANGED notSd
    \/ \E ok \in BOOLEAN : SendTextMessageSettles(ok) /\ UNCHANGED notSd
    \/ DelayBetweenChunksDone /\ UNCHANGED notSd
    \/ SendTextMessageWithSplittingDone /\ UNCHANGED notSd

-----------------------------------------------------------------------------
(***************************************************************************)
(* queryHaiIndexer: the downstream query behind the circuit breaker        *)
(***************************************************************************)

\* the answer of the fallback passed to circuitBreaker.execute
FallbackAnswer ==
    "Sorry, the system is currently busy. Please try again in a few moments."

\* the answer returned when the response carries none
NoAnswerFound == "Sorry, I couldn't find an answer."

\* What the wrapped function resolves with: an answer taken from the
\* response, or the answer for a response without one.
FnAnswers == {"answer", NoAnswerFound}

HqInit ==
    /\ qPc = "idle"
    /\ qAnswer = "none"
    /\ qRequests = 0
    /\ qShort = FALSE

\* queryHaiIndexer(normalizedQuery) is called: it throws when the API URL is
\* not configured, and otherwise enters circuitBreaker.execute(fn, fallback).
QueryHaiIndexerCall(configured) ==
    /\ qPc = "idle"
    /\ qAnswer' = "none"
    /\ qRequests' = 0
    /\ IF configured
         THEN /\ ExecuteBegin(1)
              /\ qPc' = "executing"
              /\ qShort' = (call'[1].pc = "fallback")
         ELSE /\ qPc' = "rejected"
              /\ qShort' = FALSE
              /\ UNCHANGED <<now, cbVars>>

\* The wrapped function is running: fetchWithRetry issues a request to the
\* API, the first or a retry.
ApiRequest ==
    /\ qPc = "executing"
    /\ call[1].pc = "running"
    /\ qRequests <= MaxRetriesBound
    /\ qRequests' = qRequests + 1
    /\ UNCHANGED <<now, cbVars, qPc, qAnswer, qShort>>

\* The wrapped function returns { answer } from an ok response.
FnResolves(answer) ==
    /\ qPc = "executing"
    /\ qRequests >= 1
    /\ ExecuteSucceeds(1)
    /\ qPc' = "resolved"
    /\ qAnswer' = answer
    /\ UNCHANGED <<qRequests, qShort>>

\* The wrapped function throws: the token could not be fetched, the requests
\* failed, or the response was not ok.
FnRejects ==
    /\ qPc = "executing"
    /\ ExecuteFails(1)
    /\ qPc' = "rejected"
    /\ UNCHANGED <<qAnswer, qRequests, qShort>>

\* No fallback is passed: a short-circuited query is rejected.
FallbackRejects(c) ==
    /\ qPc = "executing"
    /\ FallbackReturns(c)
    /\ qPc' = "rejected"
    /\ UNCHANGED <<qAnswer, qRequests, qShort>>

\* The fallback of a short-circuited query returns its answer, and execute
\* returns it.
FallbackResolves(c) ==
    /\ qPc = "executing"
    /\ FallbackReturns(c)
    /\ qPc' = "resolved"
    /\ qAnswer' = FallbackAnswer
    /\ UNCHANGED <<qRequests, qShort>>

\* The caller has the outcome.
QueryHaiIndexerDone ==
    /\ qPc \in {"resolved", "rejected"}
    /\ qPc' = "idle"
    /\ qAnswer' = "none"
    /\ qRequests' = 0
    /\ qShort' = FALSE
    /\ UNCHANGED <<now, cbVars>>

HqNext ==
    \/ /\ qPc = "idle"
       /\ \E configured \in BOOLEAN : QueryHaiIndexerCall(configured) /\ UNCHANGED notHq
    \/ ApiRequest /\ UNCHANGED notHq
    \/ \E answer \in FnAnswers : FnResolves(answer) /\ UNCHANGED notHq
    \/ FnRejects /\ UNCHANGED notHq
    \/ FallbackResolves(1) /\ UNCHANGED notHq
    \/ QueryHaiIndexerDone /\ UNCHANGED notHq
    \/ Tick /\ UNCHANGED <<cbVars, qVars, notHq>>

-----------------------------------------------------------------------------
(***************************************************************************)
(* Rate limiting middleware: incrementRateLimit and createRateLimiter      *)
(***************************************************************************)

\* the requests that may be in the middleware together
Reqs == {1, 2}

\* keyGenerator(req): the client's address
RlKeys == {"ip1", "ip2"}

\* options of createRateLimiter; windowMs a whole number of seconds
RlConfigs == [windowMs : 1..MaxWindow, maxRequests : 1..MaxLimit]

NoRecord == [count |-> 0, resetTime |-> -1]

NoRedisKey == [count |-> 0, expireAt |-> -1]

IdleReq == [pc |-> "idle", key |-> "ip1", count |-> 0, ttl |-> 0,
            status |-> "none", retryAfter |-> 0, win |-> -1]

NoWindow == [start |-> -1, n |-> 0, passed |-> 0, limited |-> 0]

RlCreated(config) ==
    /\ rlCfg = config
    /\ rlMemory = [k \in RlKeys |-> NoRecord]
    /\ rlRedis = [k \in RlKeys |-> NoRedisKey]
    /\ rlReq = [r \in Reqs |-> IdleReq]
    /\ rlWindow = [k \in RlKeys |-> NoWindow]
    /\ rlArrivals = 0

RlInit == \E config \in RlConfigs : RlCreated(config)

\* The rate limiter of a specification that is about another component.
RlIdle == RlCreated([windowMs |-> 1, maxRequests |-> 1])

\* the key is in Redis and has not expired
RedisHas(k) ==
    /\ rlRedis[k].count > 0
    /\ rlRedis[k].expireAt = -1 \/ now < rlRedis[k].expireAt

\* History: the window a request for key k arriving now falls in. A window
\* starts with the first request at or after the end of the one before and
\* lasts windowMs.
WindowAtArrival(k) ==
    IF rlWindow[k].start < 0 \/ now >= rlWindow[k].start + rlCfg.windowMs
      THEN [start |-> now, n |-> 1, passed |-> 0, limited |-> 0]
      ELSE [rlWindow[k] EXCEPT !.n = @ + 1]

\* !record || record.resetTime < now
Expired(record) == record.count = 0 \/ record.resetTime < now

\* the in-memory branch of incrementRateLimit: the record after it
MemoryIncrement(k) ==
    IF Expired(rlMemory[k])
      THEN [count |-> 1, resetTime |-> now + rlCfg.windowMs]
      ELSE [rlMemory[k] EXCEPT !.count = @ + 1]

\* The middleware has the record: 429 with Retry-After when the count is over
\* maxRequests, next() otherwise.
Respond(req, count, resetTime) ==
    [req EXCEPT !.pc = "idle",
                !.count = 0,
                !.ttl = 0,
                !.status = IF count > rlCfg.maxRequests THEN "429" ELSE "next",
                !.retryAfter = IF count > rlCfg.maxRequests THEN resetTime - now
                               ELSE 0]

\* History: the answer to a request is counted in its window.
Tally(win, req, status) ==
    IF win[req.key].start # req.win THEN win
    ELSE IF status = "next" THEN [win EXCEPT ![req.key].passed = @ + 1]
    ELSE [win EXCEPT ![req.key].limited = @ + 1]

\* Request r is answered from the record (count, resetTime).
Answer(r, req, count, resetTime, win) ==
    /\ rlReq' = [rlReq EXCEPT ![r] = Respond(req, count, resetTime)]
    /\ rlWindow' = Tally(win, req, Respond(req, count, resetTime).status)

\* The in-memory branch, run to the response without an await of I/O.
ThroughMemory(r, req, win) ==
    /\ rlMemory' = [rlMemory EXCEPT ![req.key] = MemoryIncrement(req.key)]
    /\ Answer(r, req, MemoryIncrement(req.key).count,
              MemoryIncrement(req.key).resetTime, win)
    /\ UNCHANGED rlRedis

\* A request with key k reaches the middleware: incrementRateLimit runs up
\* to its await of incr(), or through the in-memory branch.
RateLimiterCall(r, k) ==
    /\ rlReq[r].pc = "idle"
    /\ rlArrivals < MaxArrivals
    /\ rlArrivals' = rlArrivals + 1
    /\ LET req == [IdleReq EXCEPT !.key = k, !.win = WindowAtArrival(k).start]
           win == [rlWindow EXCEPT ![k] = WindowAtArrival(k)]
       IN  IF UseRedis
             THEN /\ rlReq' = [rlReq EXCEPT ![r] = [req EXCEPT !.pc = "incr"]]
                  /\ rlWindow' = win
                  /\ UNCHANGED <<rlMemory, rlRedis>>
             ELSE ThroughMemory(r, req, win)
    /\ UNCHANGED <<now, redisStatus, rlCfg>>

\* incr() replies: a key that is not there is created with the value 1 and
\* no expiry
RedisIncrReplies(r) ==
    /\ rlReq[r].pc = "incr"
    /\ LET k == rlReq[r].key
           entry == IF RedisHas(k) THEN [rlRedis[k] EXCEPT !.count = @ + 1]
                    ELSE [count |-> 1, expireAt |-> -1]
       IN  /\ rlRedis' = [rlRedis EXCEPT ![k] = entry]
           /\ rlReq' = [rlReq EXCEPT ![r].pc = "ttl", ![r].count = entry.count]
    /\ UNCHANGED <<now, redisStatus, rlCfg, rlMemory, rlWindow, rlArrivals>>

\* ttl() replies: -2 for no key, -1 for a key without expiry, else the
\* seconds left. Only ttl === -1 leads to expire().
RedisTtlReplies(r) ==
    /\ rlReq[r].pc = "ttl"
    /\ LET k == rlReq[r].key
           ttl == IF ~RedisHas(k) THEN -2
                  ELSE IF rlRedis[k].expireAt = -1 THEN -1
                  ELSE rlRedis[k].expireAt - now
       IN  IF ttl = -1
             THEN /\ rlReq' = [rlReq EXCEPT ![r].pc = "expire", ![r].ttl = ttl]
                  /\ UNCHANGED rlWindow
             ELSE Answer(r, rlReq[r], rlReq[r].count, now + ttl, rlWindow)
    /\ UNCHANGED <<now, redisStatus, rlCfg, rlMemory, rlRedis, rlArrivals>>

\* expire(redisKey, ttlSeconds) replies; resetTime = Date.now() + ttl * 1000
\* with the ttl read before
RedisExpireReplies(r) ==
    /\ rlReq[r].pc = "expire"
    /\ LET k == rlReq[r].key
       IN  rlRedis' = [rlRedis EXCEPT ![k] =
                          IF RedisHas(k)
                            THEN [rlRedis[k] EXCEPT !.expireAt = now + rlCfg.windowMs]
                            ELSE rlRedis[k]]
    /\ Answer(r, rlReq[r], rlReq[r].count, now + rlReq[r].ttl, rlWindow)
    /\ UNCHANGED <<now, redisStatus, rlCfg, rlMemory, rlArrivals>>

\* incr(), ttl() or expire() rejects: the catch falls through to the
\* in-memory branch
RedisRejects(r) ==
    /\ rlReq[r].pc \in {"incr", "ttl", "expire"}
    /\ ThroughMemory(r, rlReq[r], rlWindow)
    /\ UNCHANGED <<now, redisStatus, rlCfg, rlArrivals>>

\* cleanupInMemoryStore, run by setInterval
RlCleanup ==
    /\ rlMemory' = [k \in RlKeys |->
                      IF rlMemory[k].count > 0 /\ rlMemory[k].resetTime < now
                        THEN NoRecord ELSE rlMemory[k]]
    /\ UNCHANGED <<now, redisStatus, rlCfg, rlRedis, rlReq, rlWindow, rlArrivals>>

\* Time passes, up to the end of the runs checked.
RlTick ==
    /\ now < MaxRlTime
    /\ now' = now + 1
    /\ UNCHANGED <<redisStatus, rlVars>>

RlNext ==
    \/ \E r \in Reqs :
          /\ rlReq[r].pc = "idle"
          /\ \E k \in RlKeys : RateLimiterCall(r, k) /\ UNCHANGED notRl
    \/ \E r \in Reqs : RedisIncrReplies(r) /\ UNCHANGED notRl
    \/ \E r \in Reqs : RedisTtlReplies(r) /\ UNCHANGED notRl
    \/ \E r \in Reqs : RedisExpireReplies(r) /\ UNCHANGED notRl
    \/ \E r \in Reqs : RedisRejects(r) /\ UNCHANGED notRl
    \/ RlCleanup /\ UNCHANGED notRl
    \/ RedisStatusChanges /\ UNCHANGED notId
    \/ RlTick /\ UNCHANGED notRl

-----------------------------------------------------------------------------
(***************************************************************************)
(* Specifications, one per component                                       *)
(***************************************************************************)

InitRetry == FrInit /\ now = 0 /\ CbIdle /\ IdIdle /\ SpInit /\ SdInit /\ HqInit /\ RlIdle

SpecRetry == InitRetry /\ [][FrNext]_vars

\* execute() calls made one at a time
InitBreaker == CbInit /\ now = 0 /\ FrInit /\ IdIdle /\ SpInit /\ SdInit /\ HqInit /\ RlIdle

NextBreakerSeq == CbNext({1})

SpecBreakerSeq == InitBreaker /\ [][NextBreakerSeq]_vars

\* execute() calls overlapping at their await points
NextBreaker == CbNext(Callers)

\* The breakers of the overlapping runs: every threshold and both orders of
\* the two durations.
ConcurrentConfigs == [failureThreshold : {1, 2, 3}, successThreshold : {1, 2},
                      timeoutMs : {1}, resetTimeoutMs : {1, 2}]

InitConcurrent ==
    /\ \E config \in ConcurrentConfigs : Created(config)
    /\ now = 0
    /\ FrInit
    /\ IdIdle
    /\ SpInit
    /\ SdInit
    /\ HqInit /\ RlIdle

SpecBreaker == InitConcurrent /\ [][NextBreaker]_vars

\* processWithIdempotency calls of several webhook deliveries, interleaved
\* at their await points
InitIdem == IdInit /\ now = 0 /\ FrInit /\ CbIdle /\ SpInit /\ SdInit /\ HqInit /\ RlIdle

SpecIdem == InitIdem /\ [][IdNext]_vars

\* One fetchWithRetry invocation at a time, with its timers, as time passes
InitTimeout == FrInit /\ now = 0 /\ CbIdle /\ IdIdle /\ SpInit /\ SdInit /\ HqInit /\ RlIdle

SpecTimeout == InitTimeout /\ [][TmNext]_vars

\* splitMessage applied to every text and maxLength within the bounds
InitSplit == SpInit /\ now = 0 /\ FrInit /\ CbIdle /\ IdIdle /\ SdInit /\ HqInit /\ RlIdle

SpecSplit == InitSplit /\ [][SpNext]_vars

\* sendTextMessageWithSplitting applied to the replies of SendTexts
InitSend == SdInit /\ now = 0 /\ FrInit /\ CbIdle /\ IdIdle /\ SpInit /\ HqInit /\ RlIdle

SpecSend == InitSend /\ [][SdNext]_vars

\* Queries made one at a time through a breaker of any configuration
InitQuery == CbInit /\ now = 0 /\ FrInit /\ IdIdle /\ SpInit /\ SdInit /\ HqInit /\ RlIdle

SpecQuery == InitQuery /\ [][HqNext]_vars

\* Requests arriving at the rate limiter, interleaved at its awaits of the
\* shared store, as time passes and the store comes and goes
InitRate ==
    /\ RlInit
    /\ IdInit
    /\ now = 0
    /\ FrInit /\ CbIdle /\ SpInit /\ SdInit /\ HqInit

SpecRate == InitRate /\ [][RlNext]_vars

\* execute() calls made one at a time for as long as the process runs; the
\* runs checked are those that keep failureCount within MaxThreshold + 1
NextRecovery ==
    \/ ExecuteBegin(1) /\ UNCHANGED notCb
    \/ FallbackReturns(1) /\ UNCHANGED notCb
    \/ ExecuteSucceeds(1) /\ UNCHANGED notCb
    \/ failureCount <= MaxThreshold /\ ExecuteFails(1) /\ UNCHANGED notCb
    \/ TimePasses /\ UNCHANGED notCb

\* The clock advances, and an awaited fallback() or protected call settles.
SpecRecovery ==
    /\ InitBreaker
    /\ [][NextRecovery]_vars
    /\ WF_vars(TimePasses /\ UNCHANGED notCb)
    /\ WF_vars(FallbackReturns(1) /\ UNCHANGED notCb)
    /\ WF_vars(ExecuteSucceeds(1) /\ UNCHANGED notCb)

\* Every fetch() settles (the per-attempt timer aborts one that hangs) and
\* every backoff timer fires.
SpecRetryFair ==
    /\ SpecRetry
    /\ WF_vars(\E o \in Outcomes : FetchSettles(o) /\ UNCHANGED notFr)
    /\ WF_vars(SleepDone /\ UNCHANGED notFr)

-----------------------------------------------------------------------------
(***************************************************************************)
(* Properties of the circuit breaker                                       *)
(***************************************************************************)

NoCallInFlight == \A c \in Callers : call[c].pc = "idle"

\* Caller c enters execute() in this step.
BeginStep(c) == call[c].pc = "idle" /\ call'[c].pc # "idle"

C1_TripInv ==
    (NoCallInFlight /\ consecFail >= cfg.failureThreshold) => state = "OPEN"

C1_ShortCircuitStep ==
    \A c \in Callers :
        /\ (BeginStep(c) /\ state = "OPEN"
                /\ now - lastStateChangeTime < cfg.timeoutMs)
             => (call'[c].pc = "fallback" /\ state' = "OPEN")
        /\ (call[c].pc = "fallback" /\ call'[c].pc # "fallback")
             => (call'[c].pc = "idle" /\ cbOutcome'[c] = "fallback"
                   /\ UNCHANGED <<state, failureCount, successCount>>)

\* C1: with execute calls made one at a time, after failureThreshold
\* consecutive failing calls the breaker is OPEN, and an execute call entered
\* while OPEN and before openDurationMs (cfg.timeoutMs) has elapsed since
\* lastStateChangeTime awaits only the fallback and returns its result: the
\* protected call is not invoked.
C1_TripThenShortCircuit == []C1_TripInv /\ [][C1_ShortCircuitStep]_vars

C1_Witness ==
    /\ cfg.failureThreshold >= 2
    /\ consecFail >= cfg.failureThreshold
    /\ state = "OPEN"
    /\ call[1].pc = "fallback"
    /\ call[1].now - lastStateChangeTime < cfg.timeoutMs

C2_LetThroughStep ==
    \A c \in Callers :
        (BeginStep(c) /\ state = "OPEN"
            /\ now - lastStateChangeTime >= cfg.timeoutMs)
        => (call'[c].pc = "running" /\ state' = "HALF_OPEN" /\ successCount' = 0)

C2_RecoverInv ==
    (NoCallInFlight /\ consecSucc >= cfg.successThreshold) =>
        (state = "CLOSED" /\ failureCount = 0)

\* C2: with execute calls made one at a time, an execute call entered once
\* the breaker has been OPEN for at least openDurationMs is let through to
\* the protected call (the state becomes HALF_OPEN with successCount 0), and
\* successThreshold consecutive successful protected calls counted from that
\* one leave the breaker CLOSED with failureCount 0.
C2_HalfOpenRecovery == []C2_RecoverInv /\ [][C2_LetThroughStep]_vars

C2_Witness ==
    /\ cfg.successThreshold >= 2
    /\ consecSucc >= cfg.successThreshold
    /\ NoCallInFlight
    /\ state = "CLOSED"
    /\ failureCount = 0
    /\ lastFailureTime >= 0

\* Caller c's protected call settles in this step.
FnSettlesStep(c) == call[c].pc = "running" /\ call'[c].pc # "running"

C13_Step ==
    \A c \in Callers :
        /\ FnSettlesStep(c) =>
              /\ call'[c].pc = "idle"
              /\ cbOutcome'[c] \in {"result", "error"}
        /\ (FnSettlesStep(c) /\ failureCount' = failureCount + 1) =>
              cbOutcome'[c] = "error"
        /\ (call[c].pc # "idle" /\ call'[c].pc = "idle"
                /\ cbOutcome'[c] = "fallback") => call[c].pc = "fallback"
        /\ (call[c].pc # "fallback" /\ call'[c].pc = "fallback") => BeginStep(c)

\* C13: when execute has invoked the protected call and it rejects, execute
\* rejects with that error (the failure is recorded and the caller gets the
\* error, also when this failure opens the breaker); the fallback is awaited
\* and returned only by a call that was short-circuited at entry.
C13_ExecutedFailureRethrown == [][C13_Step]_vars

C13_Witness ==
    /\ call[1].pc = "idle"
    /\ cbOutcome[1] = "error"
    /\ state = "OPEN"
    /\ lastFailureTime = lastStateChangeTime
    /\ cfg.failureThreshold >= 2

C14_Step ==
    \A c \in Callers :
        BeginStep(c) =>
            ((call'[c].pc = "running")
               <=> ~(state = "OPEN" /\ now - lastStateChangeTime < cfg.timeoutMs))

\* C14: execute invokes the protected call on every invocation except when
\* the state at entry is OPEN and cfg.timeoutMs has not elapsed since
\* lastStateChangeTime; entered in CLOSED, in HALF_OPEN, or in OPEN with the
\* duration elapsed, it invokes the protected call.
C14_InvokedUnlessOpen == [][C14_Step]_vars

AllowedTransitions ==
    {<<"CLOSED", "OPEN">>, <<"OPEN", "HALF_OPEN">>,
     <<"HALF_OPEN", "CLOSED">>, <<"HALF_OPEN", "OPEN">>}

\* a step of some execute() call: entering it, or resuming after its await
ExecuteStep == \E c \in Callers : call'[c] # call[c]

C15_Step ==
    (ExecuteStep /\ state' # state) => <<state, state'>> \in AllowedTransitions

\* C15: however concurrent execute calls interleave at their awaits, a step
\* of execute changes the state only CLOSED->OPEN, OPEN->HALF_OPEN,
\* HALF_OPEN->CLOSED or HALF_OPEN->OPEN: never OPEN->CLOSED, never
\* CLOSED->HALF_OPEN.
C15_OnlyFourTransitions == [][C15_Step]_vars

C15_Witness ==
    /\ state = "OPEN"
    /\ call[1].pc = "running"
    /\ call[1].now < lastStateChangeTime
    /\ call[2].pc = "idle"
    /\ cbOutcome[2] = "error"
    /\ cfg.successThreshold = 1

\* Caller c's protected call rejects in this step.
FnRejectsStep(c) == FnSettlesStep(c) /\ failureCount' = failureCount + 1

C31_Step ==
    \A c \in Callers :
        (FnRejectsStep(c) /\ state = "HALF_OPEN") =>
            /\ state' = "OPEN"
            /\ successCount' = 0
            /\ lastStateChangeTime' = call[c].now
            /\ call'[c].pc = "idle"
            /\ cbOutcome'[c] = "error"

\* C31: a protected call that rejects while the state is HALF_OPEN, whenever
\* it was admitted, moves the breaker to OPEN, sets successCount to 0,
\* assigns lastStateChangeTime (the time its execute() read at entry) and
\* execute rejects with the error.
C31_HalfOpenFailureReopens == [][C31_Step]_vars

\* Only caller 1 has called execute(): a failureCount above the threshold
\* comes from a failure in HALF_OPEN.
C31_Witness ==
    /\ state = "OPEN"
    /\ NoCallInFlight
    /\ cbOutcome[1] = "error"
    /\ cbOutcome[2] = "none"
    /\ failureCount > cfg.failureThreshold
    /\ successCount = 0
    /\ lastStateChangeTime = lastFailureTime
    /\ lastStateChangeTime > 0

\* Caller c's protected call resolves in this step.
FnResolvesStep(c) == FnSettlesStep(c) /\ cbOutcome'[c] = "result"

C32_Step ==
    \A c \in Callers :
        (FnResolvesStep(c) /\ state = "CLOSED") =>
            /\ failureCount' = IF failureCount > 0 THEN failureCount - 1 ELSE 0
            /\ state' = "CLOSED"
            /\ UNCHANGED <<successCount, lastStateChangeTime>>

\* C32: a protected call that resolves while the state is CLOSED takes one
\* off failureCount, which stays 0 when it is 0, and leaves the state CLOSED,
\* successCount and lastStateChangeTime as they are.
C32_ClosedSuccessDecrements == [][C32_Step]_vars

\* Only caller 1 has called execute(), reset() has not run since the last
\* failure and the state has never changed: two calls have failed and the
\* success after them has taken failureCount from 2 to 1.
C32_Witness ==
    /\ state = "CLOSED"
    /\ NoCallInFlight
    /\ cbOutcome[1] = "result"
    /\ cbOutcome[2] = "none"
    /\ lastFailureTime >= 0
    /\ lastStateChangeTime = 0
    /\ failureCount = 1
    /\ consecSucc = -1
    /\ consecFail = 0
    /\ cfg.failureThreshold = 3

\* C36: with failureThreshold >= 1 and successThreshold >= 1, however
\* execute calls and resets interleave, a CLOSED breaker has failureCount
\* below failureThreshold and successCount 0, and successCount is below
\* successThreshold in every state.
C36_CountsWithinThresholds ==
    /\ state = "CLOSED" =>
          (failureCount < cfg.failureThreshold /\ successCount = 0)
    /\ successCount < cfg.successThreshold

\* A call is in flight since before the breaker last became CLOSED, and
\* failures since then have brought failureCount to one below the threshold.
C36_Witness ==
    /\ state = "CLOSED"
    /\ lastStateChangeTime > 0
    /\ call[1].pc = "running"
    /\ call[1].now < lastStateChangeTime
    /\ failureCount >= 1
    /\ failureCount = cfg.failureThreshold - 1
    /\ cbOutcome[2] = "error"

C37_Step ==
    \A c \in Callers :
        (BeginStep(c) /\ state = "OPEN" /\ trippedAt >= 0
            /\ now - trippedAt < cfg.timeoutMs)
        => call'[c].pc = "fallback"

\* C37: after a failing call has taken the breaker from CLOSED to OPEN, an
\* execute call entered less than openDurationMs (cfg.timeoutMs) after the
\* moment that failure was observed is short-circuited, however long the
\* failing call ran.
C37_OpenPeriodFromObservedFailure == [][C37_Step]_vars

\* In HALF_OPEN lastStateChangeTime is the entry time of the call that began
\* the period: a call that read an earlier time at entry was admitted before.
AdmittedBeforeHalfOpen(c) ==
    state = "HALF_OPEN" /\ call[c].now < lastStateChangeTime

C38_Step ==
    \A c \in Callers :
        (FnResolvesStep(c) /\ AdmittedBeforeHalfOpen(c)) =>
            UNCHANGED <<successCount, state>>

\* C38: a call admitted before the current HALF_OPEN period began (while
\* CLOSED or in an earlier HALF_OPEN period) whose protected call resolves
\* while the state is HALF_OPEN neither increments successCount nor closes
\* the breaker.
C38_OnlyCurrentPeriodCounts == [][C38_Step]_vars

\* C39: if execute keeps being called and from some point on no protected
\* call rejects, the breaker is CLOSED from some point on, whatever the time
\* between one call and the next.
C39_EventuallyClosed ==
    (([]<><<BeginStep(1)>>_vars) /\ (<>[][~FnRejectsStep(1)]_vars))
        => <>[](state = "CLOSED")

-----------------------------------------------------------------------------
(***************************************************************************)
(* Properties of the idempotency service                                   *)
(***************************************************************************)

\* The worker's latest call has returned or thrown.
Ended(w) == proc[w].pc = "idle" /\ proc[w].result # "none"

\* C3: of two concurrent processWithIdempotency calls with the same
\* non-empty, not yet marked message id, interleaved in any way at their
\* await points, exactly one runs the processor body and the other reports
\* a duplicate.
C3_ConcurrentExactlyOnce ==
    \A w, v \in Workers :
        (/\ v \in proc[w].with
         /\ proc[w].id # ""
         /\ proc[w].seen = "never" /\ proc[v].seen = "never"
         /\ Ended(w) /\ Ended(v))
        => \/ proc[w].ran /\ ~proc[v].ran /\ proc[v].result = "duplicate"
           \/ proc[v].ran /\ ~proc[w].ran /\ proc[w].result = "duplicate"

\* C4: a processWithIdempotency call that starts after a call with the same
\* non-empty id has run the processor and returned, within the TTL window of
\* the mark, returns isDuplicate true without invoking the processor.
C4_SecondCallIsDuplicate ==
    \A w \in Workers :
        (proc[w].id # "" /\ proc[w].after /\ proc[w].seen = "fresh" /\ Ended(w))
        => (proc[w].result = "duplicate" /\ ~proc[w].ran)

\* C5: once a message id has been marked as processed, every later
\* isDuplicate check for it within the 24-hour window in the same process
\* returns true, whatever the shared store's availability was when the id was
\* marked and is when it is checked.
C5_MarkedIsDuplicate ==
    \A w \in Workers :
        (proc[w].pc = "checked" /\ proc[w].id # "" /\ proc[w].seen = "fresh")
        => proc[w].dup

\* C25: after a processWithIdempotency call whose processor threw (the call
\* rethrows, and the id stays marked), a later call with the same id, within
\* the TTL window of the mark, reports a duplicate and does not run the
\* processor.
C25_ThrowKeepsMarked ==
    \A w \in Workers :
        (proc[w].id # "" /\ proc[w].afterThrow /\ proc[w].seen = "fresh" /\ Ended(w))
        => (proc[w].result = "duplicate" /\ ~proc[w].ran)

\* Nothing is stored under the absent id, and a call without an id is never
\* taken for a duplicate, never waits for the shared store, and ends having
\* run the processor.
C26_Inv ==
    /\ redisKeys[""] = 0
    /\ inMemoryStore[""] = -1
    /\ \A w \in Workers :
          (proc[w].id = "" /\ proc[w].pc # "idle") =>
              /\ ~proc[w].dup
              /\ proc[w].pc \notin {"exists", "setex"}
    /\ \A w \in Workers :
          (proc[w].id = "" /\ Ended(w)) =>
              /\ proc[w].ran
              /\ proc[w].result \in {"processed", "error"}

\* A step of a call without an id leaves both stores as they are.
C26_Step ==
    \A w \in Workers :
        (proc[w].pc # "idle" /\ proc[w].id = "" /\ proc'[w] # proc[w])
        => (redisKeys' = redisKeys /\ inMemoryStore' = inMemoryStore)

\* C26: with an empty or absent message id, processWithIdempotency always
\* invokes the processor, never reports a duplicate, and writes nothing to
\* the shared store or to the in-process store.
C26_NoIdAlwaysProcessed == []C26_Inv /\ [][C26_Step]_vars

C26_Witness ==
    /\ redisStatus = "ready"
    /\ \A w \in Workers :
          proc[w].id = "" /\ Ended(w) /\ proc[w].ran /\ proc[w].result = "processed"

\* The only error a call ends with is its processor's.
C27_Inv ==
    \A w \in Workers : proc[w].result = "error" => proc[w].ran

\* When exists() rejects, the check is answered from the in-process store;
\* when setex() rejects, the id is marked in the in-process store; either way
\* the call goes on.
C27_Step ==
    \A w \in Workers :
        /\ (proc'[w].storeErr = "exists" /\ proc[w].storeErr # "exists") =>
              /\ proc'[w].pc = "checked"
              /\ proc'[w].dup = InMemoryHas(proc[w].id)
        /\ (proc'[w].storeErr = "setex" /\ proc[w].storeErr # "setex") =>
              /\ proc'[w].pc = "marked"
              /\ inMemoryStore'[proc[w].id] = now
              /\ redisKeys' = redisKeys

\* C27: an error raised by the shared store during the existence check or
\* the mark never reaches the caller of processWithIdempotency: the operation
\* is completed against the in-process store.
C27_StoreErrorsFallBack == []C27_Inv /\ [][C27_Step]_vars

C27_Witness ==
    \E w \in Workers :
        /\ proc[w].storeErr = "setex"
        /\ proc[w].pc = "marked"
        /\ inMemoryStore[proc[w].id] = now
        /\ redisKeys[proc[w].id] = 0
        /\ redisStatus = "ready"

-----------------------------------------------------------------------------
(***************************************************************************)
(* Properties of fetchWithRetry                                            *)
(***************************************************************************)

FrDone == frPc \in {"returned", "thrown"}

\* C6: when the call fails k <= maxRetries times with retryable outcomes and
\* then succeeds, fetchWithRetry returns that successful response after
\* exactly k+1 attempts, having slept retryDelayMs * 2^i before the retry
\* that follows attempt i, for i = 0..k-1.
C6_RetryThenSuccess ==
    (frPc = "returned" /\ Ok(frResult) /\ ~nonRetryableSeen) =>
        /\ frResult = lastOutcome
        /\ nFetch = nSettled
        /\ nFetch <= frCfg.maxRetries + 1
        /\ Len(sleeps) = nFetch - 1
        /\ \A i \in 1..Len(sleeps) : sleeps[i] = frCfg.retryDelayMs * 2^(i - 1)

C6_Witness ==
    /\ frPc = "returned" /\ Ok(frResult) /\ ~nonRetryableSeen
    /\ nFetch = 3
    /\ respSeen # None /\ lastError # None

\* C7: a non-ok response for which shouldRetry returns false (a 400 under
\* the default predicate) is returned as-is by the attempt that received
\* it, with no backoff sleep after it: as the first attempt's outcome, the
\* call ends after exactly one attempt without any sleep.
C7_NonRetryableResponseReturned ==
    /\ ~DefaultShouldRetry(Response(400))
    /\ (lastOutcome.kind = "response" /\ ~Ok(lastOutcome) /\ ~ShouldRetry(lastOutcome)) =>
          /\ frPc = "returned"
          /\ frResult = lastOutcome
          /\ Len(sleeps) = nFetch - 1
          /\ (attempt = 0 => nFetch = 1 /\ sleeps = <<>>)

C7_Witness ==
    /\ frPc = "returned"
    /\ frResult = Response(400)
    /\ frCfg.shouldRetry = DefaultRetryable
    /\ frCfg.maxRetries > 0
    /\ nFetch = 1

\* C8: a transport error for which shouldRetry returns false is propagated
\* to the caller at once: no further attempt, no backoff sleep, even when
\* attempts remain.
C8_NonRetryableErrorPropagates ==
    (lastOutcome.kind = "error" /\ ~ShouldRetry(lastOutcome)) =>
        (frPc = "thrown" /\ frResult = lastOutcome)

\* C9: when all maxRetries+1 attempts are used up, fetchWithRetry returns
\* the last non-ok response if any attempt produced one, and raises the last
\* transport error only if no attempt produced a response.
C9_ExhaustedPrefersResponse ==
    (FrDone /\ nSettled = frCfg.maxRetries + 1 /\ ~Ok(lastOutcome)) =>
        IF respSeen # None
          THEN frPc = "returned" /\ frResult = respSeen
          ELSE frPc = "thrown" /\ frResult = lastOutcome

\* C10: for every sequence of attempt outcomes and every shouldRetry
\* predicate, fetchWithRetry makes at most maxRetries+1 attempts and then
\* returns or raises; with maxRetries = 0 it makes exactly one attempt and
\* never sleeps.
C10_AttemptsBounded ==
    /\ nFetch <= frCfg.maxRetries + 1
    /\ nSettled = frCfg.maxRetries + 1 => FrDone
    /\ (frPc # "idle" /\ frCfg.maxRetries = 0) =>
          (nFetch = 1 /\ sleeps = <<>> /\ frPc # "sleeping")

C10_BoundedAndTerminates ==
    /\ []C10_AttemptsBounded
    /\ (frPc = "fetching") ~> FrDone

C10_Witness ==
    /\ frPc = "thrown"
    /\ frCfg.maxRetries = 0
    /\ frCfg.shouldRetry = NonOk
    /\ nFetch = 1

\* C11: with the default retry predicate a 429 response is retried like a 5xx
\* one: while attempts remain, the invocation that received it sleeps the
\* backoff delay (and then fetches again) instead of returning it.
C11_Default429Retried ==
    (/\ frCfg.shouldRetry = DefaultRetryable
     /\ nFetch = nSettled
     /\ nSettled >= 1
     /\ lastOutcome = Response(429)
     /\ nSettled <= frCfg.maxRetries)
    => frPc = "sleeping"

-----------------------------------------------------------------------------
(***************************************************************************)
(* Properties of the per-attempt timers                                    *)
(***************************************************************************)

\* the timer armed for the attempt whose fetch() is pending
OwnTimer == [attempt |-> attempt, due |-> fetchStart + frTimeoutMs]

C12_TimerInv ==
    /\ frPc = "fetching" =>
          /\ now - fetchStart <= frTimeoutMs
          /\ \A a \in aborted : a <= attempt
          /\ IF attempt \in aborted
               THEN timers = {} /\ now - fetchStart = frTimeoutMs
               ELSE timers = {OwnTimer}
    /\ frPc # "fetching" => timers = {}
    /\ (nSettled >= 1 /\ nSettled = nFetch) =>
          /\ lastOutcome = AbortError => settledAfter >= frTimeoutMs
          /\ lastOutcome # AbortError => settledAfter <= frTimeoutMs
          /\ settledAfter < frTimeoutMs => lastOutcome # AbortError

C12_AbortStep ==
    aborted' \ aborted \subseteq
        {a \in {attempt} : frPc = "fetching" /\ now - fetchStart >= frTimeoutMs}

-----------------------------------------------------------------------------
(***************************************************************************)
(* Properties of the message splitter                                      *)
(***************************************************************************)

Returned == spPc = "returned"

RECURSIVE Concat(_)
Concat(ss) == IF ss = <<>> THEN <<>> ELSE Head(ss) \o Concat(Tail(ss))

NotSpace(ch) == ~IsSpace(ch)

NonSpace(s) == SelectSeq(s, NotSpace)

\* C16: for any text and any maxLength >= 1, every chunk splitMessage
\* returns has length <= maxLength.
C16_ChunksWithinMaxLength ==
    Returned => \A i \in 1..Len(chunks) : Len(chunks[i]) <= maxLength

C16_Witness ==
    /\ Returned
    /\ Len(chunks) >= 3
    /\ Len(chunks[1]) = maxLength
    /\ Len(chunks[2]) < maxLength
    /\ maxLength >= 2

\* C18: the chunks splitMessage returns, concatenated, are the original
\* text less whitespace: its non-whitespace characters, each once, in the
\* original order.
C18_NonSpacePreserved ==
    Returned => NonSpace(Concat(chunks)) = NonSpace(message)

C18_Witness ==
    /\ Returned
    /\ Len(chunks) >= 2
    /\ trimmed >= 2
    /\ Len(NonSpace(message)) >= 3
    /\ \E i \in 1..Len(message) : IsSentenceEnd(message[i])

\* C19: for any text and any maxLength, the total length of the chunks
\* splitMessage returns is at least 95% of the length of the text.
C19_AtLeast95Percent ==
    Returned => 100 * Len(Concat(chunks)) >= 95 * Len(message)

\* C19, amended: the total length of the chunks is the length of the text
\* less the whitespace characters the trim() calls removed at the chunk
\* boundaries (so it is at least 95% of it exactly when that whitespace is
\* at most 5% of the text).
C19_AllButTrimmedWhitespace ==
    Returned =>
        /\ Len(Concat(chunks)) + trimmed = Len(message)
        /\ trimmed <= Len(message) - Len(NonSpace(message))

C19_Witness ==
    /\ Returned
    /\ Len(chunks) >= 2
    /\ trimmed >= 1
    /\ 100 * Len(Concat(chunks)) < 95 * Len(message)

\* C20: a text of length <= maxLength is returned as the single chunk that
\* is the text itself, nothing trimmed; maxLength 'A's give one chunk and
\* maxLength + 1 'A's exactly two.
C20_ShortTextSingleChunk ==
    Returned =>
        /\ Len(message) <= maxLength => chunks = <<message>>
        /\ message = Repeated(maxLength + 1) => Len(chunks) = 2

\* C20, amended: the same for a non-empty text; the empty text gives no
\* chunk at all.
C20_NonEmptyShortTextSingleChunk ==
    Returned =>
        /\ (message # <<>> /\ Len(message) <= maxLength) => chunks = <<message>>
        /\ message = <<>> => chunks = <<>>
        /\ message = Repeated(maxLength + 1) => Len(chunks) = 2

C20_Witness ==
    /\ Returned
    /\ Len(message) = maxLength
    /\ IsSpace(message[1])
    /\ IsSpace(message[Len(message)])
    /\ chunks = <<message>>
    /\ maxLength >= 3

\* This step is a pass through the loop body that cuts a piece off.
CutStep == spPc = "loop" /\ Len(remaining) > maxLength /\ spPc' = "loop"

\* The window: the first maxLength characters of the remaining text.
Window == SubSeq(remaining, 1, maxLength)

\* where the final 200 characters of the window begin (characters before)
LookbackStart == maxLength - Min(LookbackWindow, maxLength)

\* A sentence boundary begins at position j of s: '.', '!' or '?' followed
\* by whitespace, or a blank line.
BoundaryAt(s, j) ==
    /\ j < Len(s)
    /\ \/ IsSentenceEnd(s[j]) /\ IsSpace(s[j + 1])
       \/ IsNewline(s[j]) /\ IsNewline(s[j + 1])

\* The final 200 characters of the window contain a sentence boundary.
BoundaryInLookback ==
    \E j \in (LookbackStart + 1)..maxLength : BoundaryAt(Window, j)

\* The piece cut off in this step is the first k characters of the
\* remaining text: both sides are trimmed.
CutAt(k) ==
    /\ chunks' = Append(chunks, Trim(SubSeq(remaining, 1, k)))
    /\ remaining' = Trim(SubSeq(remaining, k + 1, Len(remaining)))

\* positions (from 1) of the newlines of the window
NewlinesInWindow == {i \in 1..maxLength : IsNewline(Window[i])}

\* index (from 0) of the last newline of the window
LastNewline == (CHOOSE i \in NewlinesInWindow : \A j \in NewlinesInWindow : i >= j) - 1

C33_Step ==
    (CutStep /\ ~BoundaryInLookback) =>
        IF NewlinesInWindow # {} /\ 5 * LastNewline >= 4 * maxLength
          THEN CutAt(LastNewline + 1)
          ELSE CutAt(maxLength)

\* C33: when the final 200 characters of the window hold no sentence
\* boundary, the piece is cut right after the last newline of the window if
\* that newline's index is at least 80% of maxLength, and at maxLength
\* otherwise.
C33_LineBreakAtOrAfter80Percent == [][C33_Step]_vars

\* The first k characters of the window end right after a sentence boundary
\* that begins in the window's final 200 characters.
EndsAfterBoundary(k) ==
    \E j \in (LookbackStart + 1)..(k - 1) :
        /\ BoundaryAt(Window, j)
        /\ \/ IsSentenceEnd(Window[j]) /\ \A i \in (j + 1)..k : IsSpace(Window[i])
           \/ \A i \in j..k : IsNewline(Window[i])

C34_Step ==
    (CutStep /\ BoundaryInLookback) =>
        \E k \in 1..maxLength :
            /\ k > maxLength - LookbackWindow
            /\ EndsAfterBoundary(k)
            /\ CutAt(k)

\* C34: when the final 200 characters of the window hold a sentence
\* boundary, the piece cut off ends right after a sentence boundary of those
\* 200 characters, and is longer than maxLength - 200 before it is trimmed.
C34_CutAfterSentenceBoundary == [][C34_Step]_vars

\* "a. aaa" and the like cut with maxLength 4 into "a." and the rest: the
\* boundary lies in the last 3 of the window's 4 characters.
C34_Witness ==
    /\ spPc = "loop"
    /\ maxLength > LookbackWindow
    /\ Len(message) > maxLength
    /\ ~IsSpace(message[1])
    /\ IsSentenceEnd(message[2])
    /\ IsSpace(message[3])
    /\ ~IsSpace(message[4])
    /\ chunks = <<SubSeq(message, 1, 2)>>
    /\ remaining = SubSeq(message, 4, Len(message))

C35_Step ==
    (spPc = "loop" /\ spPc' = "loop") => Len(remaining') < Len(remaining)

\* Passes made so far (one chunk each) and characters left to split.
C35_Variant ==
    spPc = "loop" => Len(chunks) + Len(remaining) <= Len(message)

\* C35: for every text and every maxLength >= 1, each pass through the loop
\* body that does not leave the loop makes the remaining text shorter by at
\* least one character, so the passes made and the characters left never add
\* up to more than the length of the text: the loop ends within that many
\* passes.
C35_SplitMessageTerminates == []C35_Variant /\ [][C35_Step]_vars

\* A call with maxLength 1 that has returned after three passes that each
\* cut one character off.
C35_Witness ==
    /\ Returned
    /\ maxLength = 1
    /\ Len(message) >= 4
    /\ Len(chunks) >= 4

\* C40: for any text longer than maxLength, no chunk splitMessage returns is
\* the empty string.
C40_NoEmptyChunk ==
    (Returned /\ Len(message) > maxLength) =>
        \A i \in 1..Len(chunks) : chunks[i] # <<>>

-----------------------------------------------------------------------------
(***************************************************************************)
(* Properties of sending a reply                                           *)
(***************************************************************************)

\* C17: every body sendTextMessageWithSplitting gives to sendTextMessage for
\* a reply longer than the limit, page indicator included, is at most
\* WHATSAPP_MESSAGE_MAX_LENGTH characters long, and none is refused by the
\* length check as too long.
C17_MarkedChunksWithinLimit ==
    (sdPc # "idle" /\ sdSplitting /\ Len(sdMessage) > WHATSAPP_MESSAGE_MAX_LENGTH) =>
        /\ \A i \in 1..Len(sdChunks) : Len(sdChunks[i]) <= WHATSAPP_MESSAGE_MAX_LENGTH
        /\ \A r \in sdRejected : r.why # "too long"

\* The reply was longer than the limit and went through
\* splitMessageWithIndicators.
WentThroughSplitting ==
    sdPc # "idle" /\ sdSplitting /\ Len(sdMessage) > WHATSAPP_MESSAGE_MAX_LENGTH

\* The reply is being sent chunk by chunk in the for loop.
InChunkLoop == sdPc # "idle" /\ Len(sdChunks) > 1

\* C21: splitMessageWithIndicators returns a result of at most one chunk as
\* splitMessage gave it, with no marker; a result of N > 1 chunks comes back
\* as N chunks in the same order, the i-th (counted from 1) being the marker
\* "[Part i/N]" and a blank line followed by the i-th chunk of splitMessage.
C21_PartMarkers ==
    WentThroughSplitting =>
        LET cs == SplitMessage(sdMessage, WHATSAPP_MESSAGE_MAX_LENGTH)
            N == Len(cs)
        IN  /\ Len(sdChunks) = N
            /\ N <= 1 => sdChunks = cs
            /\ N > 1 =>
                 \A i \in 1..N :
                    /\ Head(sdChunks[i]) =
                         "[Part " \o ToString(i) \o "/" \o ToString(N) \o "]\n\n"
                    /\ Tail(sdChunks[i]) = cs[i]

C21_Witness ==
    /\ WentThroughSplitting
    /\ Len(sdChunks) = 3
    /\ Head(sdChunks[1]) = "[Part 1/3]\n\n"
    /\ Head(sdChunks[3]) = "[Part 3/3]\n\n"

\* the length check lets the body through to the API
Accepted(body) == ValidateMessageLength(body) = "ok"

\* the number of chunks whose send has settled
Settled == Len(sentChunks) + Len(failedChunks)

Increasing(seq) == \A j, k \in 1..Len(seq) : j < k => seq[j] < seq[k]

C22_InOrder ==
    InChunkLoop =>
        /\ sdI < Len(sdChunks)
        /\ sdApiBodies = SelectSeq(SubSeq(sdChunks, 1, sdI + 1), Accepted)
        /\ Settled = IF sdPc = "sending" THEN sdI ELSE sdI + 1
        /\ Increasing(sentChunks) /\ Increasing(failedChunks)
        /\ \A k \in 1..Len(sentChunks) : sentChunks[k] <= sdI + 1
        /\ \A k \in 1..Len(failedChunks) : failedChunks[k] <= sdI + 1

C22_Step ==
    /\ (sdPc' = "sending" /\ sdPc # "sending") =>
          \/ sdPc = "idle" /\ sdI' = 0
          \/ sdPc = "delay" /\ sdI' = sdI + 1 /\ Settled = sdI'
    /\ (sdPc' = "delay" /\ sdPc # "delay") =>
          sdPc = "sending" /\ Settled' = Settled + 1 /\ sdI' = sdI
    /\ sdApiBodies' # sdApiBodies => sdPc' \in {"sending", "idle", "returned"}

\* C22: the chunks of one reply are sent strictly in index order, one at a
\* time: the bodies posted are those of chunks 1..i+1 in that order, the send
\* of chunk i+1 begins only out of the delay between chunks, and that delay
\* begins only when the send of chunk i has settled.
C22_ChunksSentInOrder == []C22_InOrder /\ [][C22_Step]_vars

C22_Witness ==
    /\ InChunkLoop
    /\ sdPc = "sending"
    /\ sdI = 2
    /\ Len(sdApiBodies) = 3
    /\ failedChunks = <<>>

\* C23: when the send of the first chunk fails, sendTextMessageWithSplitting
\* throws and no later chunk is given to sendTextMessage.
C23_FirstChunkFailureThrows ==
    (InChunkLoop /\ failedChunks # <<>> /\ failedChunks[1] = 1) =>
        /\ sdPc = "thrown"
        /\ sdI = 0
        /\ sentChunks = <<>> /\ failedChunks = <<1>>
        /\ Len(sdApiBodies) <= 1
        /\ \A r \in sdRejected : r.chunk = 1

C23_Witness ==
    /\ InChunkLoop
    /\ Len(sdChunks) = 3
    /\ failedChunks = <<1>>
    /\ sdApiBodies = <<sdChunks[1]>>
    /\ sdPc = "thrown"

\* C24: when the send of a chunk other than the first fails, the function
\* does not throw, and it returns only when every remaining chunk has been
\* given to sendTextMessage in its turn.
C24_LaterFailureContinues ==
    (InChunkLoop /\ failedChunks # <<>> /\ failedChunks[1] # 1) =>
        /\ sdPc # "thrown"
        /\ sdPc = "returned" =>
             /\ sdI = Len(sdChunks) - 1
             /\ {sentChunks[k] : k \in 1..Len(sentChunks)}
                  \cup {failedChunks[k] : k \in 1..Len(failedChunks)}
                  = 1..Len(sdChunks)
             /\ Increasing(sentChunks) /\ Increasing(failedChunks)

C24_Witness ==
    /\ InChunkLoop
    /\ sdPc = "returned"
    /\ sentChunks = <<1, 3>>
    /\ failedChunks = <<2>>
    /\ Len(sdApiBodies) = 3

-----------------------------------------------------------------------------
(***************************************************************************)
(* Properties of queryHaiIndexer                                           *)
(***************************************************************************)

\* C28: a query the breaker short-circuits is never rejected, resolves with
\* the fixed 'system is currently busy' answer of the fallback, and no
\* request is made to the downstream API for it.
C28_ShortCircuitGivesFallback ==
    (qPc # "idle" /\ qShort) =>
        /\ qRequests = 0
        /\ call[1].pc # "running"
        /\ qPc # "rejected"
        /\ qPc = "resolved" =>
             qAnswer = "Sorry, the system is currently busy. Please try again in a few moments."

C28_Witness ==
    /\ qShort
    /\ qPc = "resolved"
    /\ state = "OPEN"
    /\ now - lastStateChangeTime < cfg.timeoutMs
    /\ qRequests = 0

-----------------------------------------------------------------------------
(***************************************************************************)
(* Properties of the rate limiter                                          *)
(***************************************************************************)

\* The request's middleware has answered.
Answered(r) == rlReq[r].pc = "idle" /\ rlReq[r].status # "none"

\* A request of the key's current window is still in the middleware.
InFlight(k) ==
    \E r \in Reqs :
        rlReq[r].pc # "idle" /\ rlReq[r].key = k /\ rlReq[r].win = rlWindow[k].start

\* C29: for each key, of the requests of one window maxRequests are passed
\* on with next() and no more, none is limited while the window has no more
\* than maxRequests requests, and every request answered 429 carries a
\* Retry-After above zero.
C29_WindowLimitEnforced ==
    /\ \A k \in RlKeys :
          /\ rlWindow[k].passed <= rlCfg.maxRequests
          /\ rlWindow[k].limited > 0 => rlWindow[k].n > rlCfg.maxRequests
          /\ ~InFlight(k) =>
                rlWindow[k].passed = Min(rlWindow[k].n, rlCfg.maxRequests)
    /\ \A r \in Reqs :
          (Answered(r) /\ rlReq[r].status = "429") => rlReq[r].retryAfter > 0

\* A step of the in-memory branch for a key that has a record: at or after
\* the record's reset time the count starts again from the request itself,
\* which is passed on; before it the count goes up by one and the reset time
\* stays.
C30_Step ==
    \A r \in Reqs :
        LET k == rlReq'[r].key
            rec == rlMemory[k]
        IN  (rlReq'[r] # rlReq[r] /\ rlMemory'[k] # rec /\ rec.count > 0) =>
                IF now >= rec.resetTime
                  THEN /\ rlMemory'[k] = [count |-> 1,
                                          resetTime |-> now + rlCfg.windowMs]
                       /\ rlReq'[r].status = "next"
                  ELSE /\ rlMemory'[k].count = rec.count + 1
                       /\ rlMemory'[k].resetTime = rec.resetTime

\* C30: a key's count resets to 0 when now >= its window reset time, so the
\* first request at or after the reset time starts a new window and is
\* allowed; before the reset time the count only increases.
C30_CountResetsAtResetTime == [][C30_Step]_vars

=============================================================================
